---------------------------- MODULE Spec2Model ----------------------------
(***************************************************************************)
(* Model of the schema-driven document service of src/api/dms3.py:         *)
(* the quantity engine, the path language and resolver, the object tracker *)
(* and the operations POST, GET, PATCH, CLONE and schema import.           *)
(*                                                                         *)
(* JSON values are tagged records:                                         *)
(*   [t |-> "num", py |-> "int"|"float", n |-> Int, d |-> Nat]  (n/d)      *)
(*   [t |-> "str", s |-> sequence of tokens]                               *)
(*   [t |-> "list", items |-> sequence of values]                          *)
(*   [t |-> "dict", items |-> sequence of [k |-> key, v |-> value]]        *)
(* A string is a sequence of tokens: identifiers, ".", "[", "]", ",", ":"  *)
(* and decimal numbers; a dict keeps its keys in insertion order, as a     *)
(* Python dict and a stored document do.                                   *)
(***************************************************************************)
EXTENDS Integers, Sequences, FiniteSets, TLC

(***************************************************************************)
(* Bounds of the model.                                                    *)
(***************************************************************************)
\* number of requests in one run
MaxOps == 3
\* number of documents the store may hold
MaxDocs == 5

None == "None"

\* Op applied to v: a result that is computed once and then used several times
Bind(v, Op(_)) == Op(v)
\* the elements of a sequence
Elems(s) == {s[i] : i \in DOMAIN s}

(***************************************************************************)
(* JSON values.                                                            *)
(***************************************************************************)
JNum(py, n, d) == [t |-> "num", py |-> py, n |-> n, d |-> d]
JInt(n) == JNum("int", n, 1)
JStr(s) == [t |-> "str", s |-> s]
JList(items) == [t |-> "list", items |-> items]
JDict(items) == [t |-> "dict", items |-> items]
KV(k, v) == [k |-> k, v |-> v]

RECURSIVE Join(_)
Join(s) == IF s = <<>> THEN "" ELSE Head(s) \o Join(Tail(s))

DictKeys(dct) == [i \in 1..Len(dct.items) |-> dct.items[i].k]
DictHas(dct, key) == \E i \in 1..Len(dct.items) : dct.items[i].k = key
DictGet(dct, key) ==
    dct.items[CHOOSE i \in 1..Len(dct.items) : dct.items[i].k = key].v
\* dct[key]=val: an existing key keeps its position, a new key goes last
DictSet(dct, key, val) ==
    IF DictHas(dct, key)
    THEN JDict([i \in 1..Len(dct.items) |->
                  IF dct.items[i].k = key THEN KV(key, val) ELSE dct.items[i]])
    ELSE JDict(Append(dct.items, KV(key, val)))
DictPop(dct, key) == JDict(SelectSeq(dct.items, LAMBDA e : e.k # key))

(***************************************************************************)
(* Rational arithmetic for numeric values.                                 *)
(***************************************************************************)
Abs(x) == IF x < 0 THEN -x ELSE x
RECURSIVE GCD(_, _)
GCD(x, y) == IF y = 0 THEN x ELSE GCD(y, x % y)
\* n/d in lowest terms, as a Python float
Float(n, d) ==
    IF n = 0 THEN JNum("float", 0, 1)
    ELSE Bind(GCD(Abs(n), d), LAMBDA g : JNum("float", n \div g, d \div g))
\* int(n/d): truncation toward zero
Trunc(n, d) == IF n >= 0 THEN n \div d ELSE -((-n) \div d)


(***************************************************************************)
(* SCHEMA: ItemSchema and SchemaSchema (pydantic models).                  *)
(***************************************************************************)
\* the unit strings the units library parses, with dimension and scale
UnitDim == [mm |-> "length", m |-> "length", s |-> "time"]
UnitScale == [mm |-> 1, m |-> 1000, s |-> 1]
\* au.Unit(v) succeeds
UnitParses(u) == u \in DOMAIN UnitDim

\* ItemSchema(**raw): the declared fields and their defaults
ItemSchema(raw) ==
    [dtype |-> IF "dtype" \in DOMAIN raw THEN raw.dtype ELSE "f",
     unit  |-> IF "unit" \in DOMAIN raw THEN raw.unit ELSE None,
     shape |-> IF "shape" \in DOMAIN raw THEN raw.shape ELSE <<>>,
     link  |-> IF "link" \in DOMAIN raw THEN raw.link ELSE None]

is_a_quantity(item) == item.dtype \in {"f", "i", "?"}

\* ItemSchema.unit_valid
unit_valid(item) == item.unit = None \/ UnitParses(item.unit)

\* ItemSchema.link_shape
link_shape(item) ==
    item.link # None => (Len(item.shape) <= 1 /\ item.unit = None)

\* the field constraints of ItemSchema and its two validators
ItemValid(item) ==
    /\ item.dtype \in {"f", "i", "?", "str", "bytes", "object"}
    /\ Len(item.shape) <= 5
    /\ unit_valid(item)
    /\ link_shape(item)

\* SchemaSchema.links_valid
links_valid(root) ==
    \A T \in DOMAIN root : \A f \in DOMAIN root[T] :
        root[T][f].link # None => root[T][f].link \in DOMAIN root

\* SchemaSchema.parse_obj(rawSchema): the parsed schema, or a validation error
SchemaSchema_parse_obj(rawSchema) ==
    LET root == [T \in DOMAIN rawSchema |->
                    [f \in DOMAIN rawSchema[T] |-> ItemSchema(rawSchema[T][f])]]
    IN  IF /\ \A T \in DOMAIN root : \A f \in DOMAIN root[T] : ItemValid(root[T][f])
           /\ links_valid(root)
        THEN [ok |-> TRUE, schema |-> root]
        ELSE [ok |-> FALSE, err |-> "ValidationError"]

(***************************************************************************)
(* QUANTITY ENGINE: _validated_quantity_2, _validated_quantity,            *)
(* _quantity_to_dict.                                                      *)
(***************************************************************************)
Err(kind) == [ok |-> FALSE, err |-> kind]

\* _flatten(items): the scalars of a possibly nested sequence, in order
RECURSIVE _flatten(_)
_flatten(v) ==
    IF v.t # "list" THEN <<v>>
    ELSE IF v.items = <<>> THEN <<>>
    ELSE _flatten(Head(v.items)) \o _flatten(JList(Tail(v.items)))

\* value matches StrictFloat / StrictInt (depth 0) or Seq[...[Strict..]] of that depth
RECURSIVE MatchesSeq(_, _, _)
MatchesSeq(v, py, depth) ==
    IF depth = 0 THEN v.t = "num" /\ v.py = py
    ELSE /\ v.t = "list"
         /\ \A i \in 1..Len(v.items) : MatchesSeq(v.items[i], py, depth - 1)

\* pydantic.validate_arguments on the value parameter: the Union of lines 113-119
ValueArgOK(v) ==
    \E py \in {"float", "int"} : \E depth \in 0..4 : MatchesSeq(v, py, depth)

\* np.can_cast(it, dtype, casting='same_kind') for a Python int or float
can_cast(it, dtype) ==
    CASE dtype = "f" -> TRUE
      [] dtype = "i" -> it.py = "int"
      [] OTHER -> FALSE

\* one element of np.array(value, dtype=dtype): a float is truncated into 'i'
NpCastNum(v, dtype) ==
    IF dtype = "i" THEN JInt(Trunc(v.n, v.d)) ELSE Float(v.n, v.d)

RECURSIVE NpCast(_, _)
NpCast(v, dtype) ==
    IF v.t = "num" THEN NpCastNum(v, dtype)
    ELSE JList([i \in 1..Len(v.items) |-> NpCast(v.items[i], dtype)])

\* np_val.shape, or <<-1>> for a ragged sequence (np.array raises)
RECURSIVE NpShape(_)
NpShape(v) ==
    IF v.t = "num" THEN <<>>
    ELSE IF v.items = <<>> THEN <<0>>
    ELSE Bind([i \in 1..Len(v.items) |-> NpShape(v.items[i])],
              LAMBDA shs : IF \A i \in 1..Len(shs) : shs[i] = shs[1] /\ shs[1] # <<-1>>
                           THEN <<Len(shs)>> \o shs[1] ELSE <<-1>>)

\* the units adapter: value (in unit from) expressed in unit to
RECURSIVE convert(_, _, _)
convert(v, from, to) ==
    IF v.t = "num" THEN Float(v.n * UnitScale[from], v.d * UnitScale[to])
    ELSE JList([i \in 1..Len(v.items) |-> convert(v.items[i], from, to)])

\* the units are convertible into each other
compatible(u1, u2) == UnitDim[u1] = UnitDim[u2]

\* _validated_quantity_2(item, value, unit): unit is None or a unit string.
\* The result is np.ndarray (unit None) or astropy Quantity (in the schema unit).
_validated_quantity_2(item, value, unit) ==
    IF ~ValueArgOK(value) THEN Err("ValidationError")
    ELSE IF item.link # None THEN Err("AssertionError")
    \* 1a. numeric type convertibility, only for a sequence
    ELSE IF /\ value.t = "list"
            /\ \E it \in Elems(_flatten(value)) : ~can_cast(it, item.dtype)
         THEN Err("NameError")
    ELSE IF item.dtype \notin {"f", "i"} THEN Err("TypeError")
    ELSE Bind(NpCast(value, item.dtype), LAMBDA np_val :
         Bind(NpShape(np_val), LAMBDA shape :
            IF shape = <<-1>> THEN Err("ValueError")
            \* 1b. shape
            ELSE IF Len(item.shape) # Len(shape) THEN Err("ValueError")
            ELSE IF \E dd \in 1..Len(shape) : item.shape[dd] > 0 /\ shape[dd] # item.shape[dd]
                 THEN Err("ValueError")
            \* 2a. schema has unit, data does not; or vice versa
            \* (the message names the loop variable of 1a, unbound for a scalar or
            \* an empty sequence)
            ELSE IF (unit = None) # (item.unit = None)
                 THEN IF value.t = "list" /\ _flatten(value) # <<>>
                      THEN Err("ValueError") ELSE Err("NameError")
            \* 2b. no unit
            ELSE IF item.unit = None THEN [ok |-> TRUE, val |-> np_val, unit |-> None]
            \* 2c. convert to the schema unit
            ELSE IF ~UnitParses(unit) THEN Err("ValueError")
            ELSE IF ~compatible(unit, item.unit) THEN Err("UnitConversionError")
            ELSE [ok |-> TRUE, val |-> convert(np_val, unit, item.unit), unit |-> item.unit]))

\* _validated_quantity(item, data): sequence, dict {value[,unit]} or scalar
_validated_quantity(item, data) ==
    IF data.t = "str" THEN Err("ValidationError")
    ELSE IF data.t = "dict" /\ \E i \in 1..Len(data.items) : data.items[i].k \notin {"value", "unit"}
         THEN Err("ValueError")
    ELSE IF data.t = "dict" /\ ~DictHas(data, "value") THEN Err("KeyError")
    ELSE IF data.t = "dict" /\ DictHas(data, "unit") /\ DictGet(data, "unit").t # "str"
         THEN Err("ValidationError")
    ELSE _validated_quantity_2(item,
             IF data.t = "dict" THEN DictGet(data, "value") ELSE data,
             IF data.t = "dict" /\ DictHas(data, "unit")
             THEN Join(DictGet(data, "unit").s) ELSE None)

\* a _quantity_to_dict that drops the unit of a Quantity
_quantity_to_dict_no_unit(q) == JDict(<<KV("value", q.val)>>)

\* _quantity_to_dict(q): {'value':..,'unit':..} for a Quantity, {'value':..} otherwise
_quantity_to_dict(q) ==
    IF q.unit # None
    THEN JDict(<<KV("value", q.val), KV("unit", JStr(<<q.unit>>))>>)
    ELSE JDict(<<KV("value", q.val)>>)

\* _api_value_to_db_rec__attr(item, val, prefix)
_api_value_to_db_rec__attr(item, val) ==
    IF item.link # None THEN Err("AssertionError")
    \* (the message of the 'str' branch names klass, which is unbound there)
    ELSE IF item.dtype = "str"
    THEN IF val.t # "str" THEN Err("NameError") ELSE [ok |-> TRUE, rec |-> val]
    ELSE IF item.dtype = "bytes"
    THEN IF val.t # "str" THEN Err("TypeError") ELSE [ok |-> TRUE, rec |-> val]
    ELSE IF item.dtype = "object" THEN [ok |-> TRUE, rec |-> val]
    ELSE Bind(_validated_quantity(item, val),
              LAMBDA q : IF q.ok THEN [ok |-> TRUE, rec |-> _quantity_to_dict(q)] ELSE q)

\* _db_rec_to_api_value__attr(item, dbrec, prefix): the stored record, unchanged
_db_rec_to_api_value__attr(item, dbrec) == dbrec

(***************************************************************************)
(* PATH LANGUAGE: _PathEntry, _parse_path, _unparse_path.                  *)
(***************************************************************************)
\* Optional[int] and the like
NoneV == [some |-> FALSE]
Some(x) == [some |-> TRUE, v |-> x]

\* the decimal numbers of path strings
MaxInt == 9
IntTok == [i \in (-MaxInt)..MaxInt |-> ToString(i)]
IsIntTok(tok) == \E i \in (-MaxInt)..MaxInt : IntTok[i] = tok
TokInt(tok) == CHOOSE i \in (-MaxInt)..MaxInt : IntTok[i] = tok
Punct == {".", "[", "]", ",", ":"}
\* [a-zA-Z][a-zA-Z0-9_]*
IsIdent(tok) == tok \notin Punct /\ ~IsIntTok(tok) /\ tok # ""

_PathEntry(attr, index, multiindex, slice) ==
    [attr |-> attr, index |-> index, multiindex |-> multiindex, slice |-> slice]
PlainEntry(attr) == _PathEntry(attr, NoneV, NoneV, NoneV)
IndexEntry(attr, ix) == _PathEntry(attr, ix, NoneV, NoneV)

hasSubscript(ent) ==
    ~(ent.index = NoneV /\ ent.multiindex = NoneV /\ ent.slice = NoneV)
\* an isPlain that takes a slice for a plain index
isPlain_no_slice(ent) == ent.multiindex = NoneV
\* _PathEntry.isPlain
isPlain(ent) == ent.multiindex = NoneV /\ ent.slice = NoneV

OptTok(o) == IF o = NoneV THEN <<>> ELSE <<IntTok[o.v]>>

RECURSIVE CommaJoin(_)
CommaJoin(ixs) ==
    IF Len(ixs) = 0 THEN <<>>
    ELSE IF Len(ixs) = 1 THEN <<IntTok[ixs[1]]>>
    ELSE <<IntTok[ixs[1]], ",">> \o CommaJoin(Tail(ixs))

\* _PathEntry.subscript: the tokens of the subscript
subscript(ent) ==
    IF ~hasSubscript(ent) THEN <<>>
    ELSE IF ent.index # NoneV THEN <<"[", IntTok[ent.index.v], "]">>
    ELSE IF ent.multiindex # NoneV
    THEN IF Len(ent.multiindex.v) = 1
         THEN <<"[", IntTok[ent.multiindex.v[1]], ",", "]">>
         ELSE CommaJoin(ent.multiindex.v)
    ELSE <<"[">> \o OptTok(ent.slice.v[1]) \o <<":">> \o OptTok(ent.slice.v[2])
         \o (IF ent.slice.v[3] = NoneV THEN <<>> ELSE <<":">> \o OptTok(ent.slice.v[3]))
         \o <<"]">>

to_str(ent) == <<ent.attr>> \o subscript(ent)

\* _unparse_path(path): '.'.join of the entries' to_str
RECURSIVE _unparse_path(_)
_unparse_path(path) ==
    IF Len(path) = 0 THEN <<>>
    ELSE IF Len(path) = 1 THEN to_str(path[1])
    ELSE to_str(path[1]) \o <<".">> \o _unparse_path(Tail(path))

\* str.find: position (from 1) of the first tok in s, 0 when absent
RECURSIVE Find(_, _)
Find(s, tok) ==
    IF s = <<>> THEN 0
    ELSE IF Head(s) = tok THEN 1
    ELSE LET r == Find(Tail(s), tok) IN IF r = 0 THEN 0 ELSE r + 1

\* path.split('.')
RECURSIVE Split(_)
Split(s) ==
    LET dot == Find(s, ".") IN
    IF dot = 0 THEN <<s>>
    ELSE <<SubSeq(s, 1, dot - 1)>> \o Split(SubSeq(s, dot + 1, Len(s)))

\* (?P<miix>([+-]?[0-9]+,)+([+-]?[0-9])?): numbers, each followed by a comma,
\* then optionally one more number
RECURSIVE IsMiix(_)
IsMiix(sfx) ==
    /\ Len(sfx) >= 2 /\ IsIntTok(sfx[1]) /\ sfx[2] = ","
    /\ \/ Len(sfx) = 2
       \/ Len(sfx) = 3 /\ IsIntTok(sfx[3])
       \/ IsMiix(SubSeq(sfx, 3, Len(sfx)))

\* (s0)?:(s1)?:?(s2)? on the tokens of a suffix: <<ok, s0, s1, s2>>
SliceMatch(sfx) ==
    Bind(IF Len(sfx) > 0 /\ IsIntTok(sfx[1]) THEN 1 ELSE 0, LAMBDA a :
    Bind(SubSeq(sfx, a + 1, Len(sfx)), LAMBDA r1 :
    Bind(SubSeq(r1, 2, Len(r1)), LAMBDA r2 :
    Bind(IF Len(r2) > 0 /\ IsIntTok(r2[1]) THEN 1 ELSE 0, LAMBDA b :
    Bind(SubSeq(r2, b + 1, Len(r2)), LAMBDA r3 :
    Bind(IF Len(r3) > 0 /\ r3[1] = ":" THEN 1 ELSE 0, LAMBDA c :
    Bind(SubSeq(r3, c + 1, Len(r3)), LAMBDA r4 :
    Bind(IF Len(r4) > 0 /\ IsIntTok(r4[1]) THEN 1 ELSE 0, LAMBDA e :
        IF Len(r1) > 0 /\ r1[1] = ":" /\ Len(r4) = e /\ (b = 1 /\ e = 1 => c = 1)
        THEN <<TRUE,
               IF a = 1 THEN Some(TokInt(sfx[1])) ELSE NoneV,
               IF b = 1 THEN Some(TokInt(r2[1])) ELSE NoneV,
               IF e = 1 THEN Some(TokInt(r4[1])) ELSE NoneV>>
        ELSE <<FALSE, NoneV, NoneV, NoneV>>))))))))

\* _parse_path._match_part: one dot-separated component
_match_part(p) ==
    IF Len(p) = 0 \/ ~IsIdent(p[1]) THEN Err("ValueError")
    ELSE IF Len(p) = 1 THEN [ok |-> TRUE, ent |-> PlainEntry(p[1])]
    ELSE IF Len(p) < 3 \/ p[2] # "[" \/ p[Len(p)] # "]" THEN Err("ValueError")
    ELSE Bind(SubSeq(p, 3, Len(p) - 1), LAMBDA sfx :
         IF Len(sfx) = 1 /\ IsIntTok(sfx[1])
         THEN [ok |-> TRUE, ent |-> IndexEntry(p[1], Some(TokInt(sfx[1])))]
         ELSE IF IsMiix(sfx)
         THEN Bind(SelectSeq(sfx, IsIntTok), LAMBDA nums :
                  [ok |-> TRUE, ent |-> _PathEntry(p[1], NoneV,
                      Some([i \in 1..Len(nums) |-> TokInt(nums[i])]), NoneV)])
         ELSE Bind(SliceMatch(sfx), LAMBDA sm :
                  IF sm[1]
                  THEN [ok |-> TRUE, ent |-> _PathEntry(p[1], NoneV, NoneV,
                                                        Some(<<sm[2], sm[3], sm[4]>>))]
                  ELSE Err("ValueError")))

\* _parse_path(path): the list of entries, or an error
_parse_path(path) ==
    IF path = <<>> THEN [ok |-> TRUE, path |-> <<>>]
    ELSE Bind(Split(path), LAMBDA pp :
         Bind([i \in 1..Len(pp) |-> _match_part(pp[i])], LAMBDA ms :
            IF \E i \in 1..Len(ms) : ~ms[i].ok THEN Err("ValueError")
            ELSE [ok |-> TRUE, path |-> [i \in 1..Len(ms) |-> ms[i].ent]]))

(***************************************************************************)
(* Python list indexing and slicing, as used by _PathEntry.apply_indexing. *)
(***************************************************************************)
Clamp(x, lo, hi) == IF x < lo THEN lo ELSE IF x > hi THEN hi ELSE x

RECURSIVE Range(_, _, _)
Range(start, stop, step) ==
    IF (step > 0 /\ start >= stop) \/ (step < 0 /\ start <= stop) THEN <<>>
    ELSE <<start>> \o Range(start + step, stop, step)

\* the 0-based indices selected by slice(s0,s1,s2) on a list of length n (s2 # 0)
SliceIndices(n, s0, s1, s2) ==
    LET step == IF s2 = NoneV THEN 1 ELSE s2.v
        adj(x) == IF x < 0 THEN x + n ELSE x
        start == IF s0 = NoneV THEN (IF step > 0 THEN 0 ELSE n - 1)
                 ELSE IF step > 0 THEN Clamp(adj(s0.v), 0, n)
                 ELSE Clamp(adj(s0.v), -1, n - 1)
        stop  == IF s1 = NoneV THEN (IF step > 0 THEN n ELSE -1)
                 ELSE IF step > 0 THEN Clamp(adj(s1.v), 0, n)
                 ELSE Clamp(adj(s1.v), -1, n - 1)
    IN Range(start, stop, step)

\* _PathEntry.apply_indexing(obj, klass, item): the list of selected link values
apply_indexing(ent, obj, item) ==
    LET scalar == Len(item.shape) = 0
        val == DictGet(obj, ent.attr)
        n == Len(val.items)
        inRange(i) == -n <= i /\ i < n
        at(i) == val.items[(IF i < 0 THEN i + n ELSE i) + 1]
    IN
    IF item.link = None THEN Err("AssertionError")
    ELSE IF ~DictHas(obj, ent.attr) THEN Err("KeyError")
    ELSE IF ~hasSubscript(ent)
    THEN IF ~scalar THEN Err("IndexError") ELSE [ok |-> TRUE, links |-> <<val>>]
    ELSE IF scalar THEN Err("IndexError")
    ELSE IF ent.index # NoneV
    THEN IF inRange(ent.index.v) THEN [ok |-> TRUE, links |-> <<at(ent.index.v)>>]
         ELSE Err("IndexError")
    ELSE IF ent.multiindex # NoneV
    THEN IF \A k \in 1..Len(ent.multiindex.v) : inRange(ent.multiindex.v[k])
         THEN [ok |-> TRUE,
               links |-> [k \in 1..Len(ent.multiindex.v) |-> at(ent.multiindex.v[k])]]
         ELSE Err("IndexError")
    ELSE IF ent.slice.v[3] # NoneV /\ ent.slice.v[3].v = 0 THEN Err("ValueError")
    ELSE Bind(SliceIndices(n, ent.slice.v[1], ent.slice.v[2], ent.slice.v[3]),
              LAMBDA ixs : [ok |-> TRUE, links |-> [k \in 1..Len(ixs) |-> at(ixs[k])]])

(***************************************************************************)
(* The document store: docs maps the ID string of every document to its    *)
(* collection (klass) and its record (a dict, keys in stored order).       *)
(***************************************************************************)
\* str(bson.objectid.ObjectId): the n-th ID the store hands out
ObjectIdStr(n) == "id" \o ToString(n)
\* the well-formed ID strings (more than the store can ever hand out)
IdSpace == MaxDocs + 2
ObjectIds == {ObjectIdStr(n) : n \in 1..IdSpace}

\* _is_object_id(o)
_is_object_id(o) == o.t = "str" /\ Len(o.s) = 1 /\ o.s[1] \in ObjectIds

\* collection.find_one({'_id': ObjectId(dbId)}) is not None
Found(docs, klass, dbId) == dbId \in DOMAIN docs /\ docs[dbId].klass = klass

\* an insert_one that hands out the ID handed out last once more
insert_one_reuse(docs, klass, rec) ==
    LET n == Cardinality(DOMAIN docs)
        idStr == ObjectIdStr(IF n = 0 THEN 1 ELSE n) IN
    [docs |-> (idStr :> [klass |-> klass, rec |-> rec]) @@ docs, id |-> idStr]

\* collection.insert_one(rec): the new store and the inserted ID
insert_one(docs, klass, rec) ==
    LET idStr == ObjectIdStr(Cardinality(DOMAIN docs) + 1) IN
    [docs |-> (idStr :> [klass |-> klass, rec |-> rec]) @@ docs, id |-> idStr]

(***************************************************************************)
(* _ObjectTracker                                                          *)
(***************************************************************************)
\* a Python list and a Python tuple of the same items are different values
PyList(items) == [py |-> "list", items |-> items]
PyTuple(items) == [py |-> "tuple", items |-> items]
\* x[:n]
PyPrefix(x, n) ==
    [py |-> x.py, items |-> SubSeq(x.items, 1, IF n < Len(x.items) THEN n ELSE Len(x.items))]

EmptyTracker == [path2id |-> <<>>, id2path |-> <<>>]

\* _ObjectTracker.path2key
path2key(path) == [i \in 1..Len(path) |-> Join(to_str(path[i]))]

\* _ObjectTracker.add_tracked_object
add_tracked_object(tr, path, id) ==
    [path2id |-> (path2key(path) :> id) @@ tr.path2id,
     id2path |-> (id :> PyTuple(path)) @@ tr.id2path]

\* re.match(r'^(.*)\[([0-9])+\]$', head)
HeadIndexed(head) ==
    /\ Len(head) >= 3
    /\ head[Len(head)] = "]"
    /\ head[Len(head) - 2] = "["
    /\ IsIntTok(head[Len(head) - 1]) /\ TokInt(head[Len(head) - 1]) >= 0

\* the loop of resolve_relpath_to_id; aliased: where is still the list curr
RECURSIVE ResolveLoop(_, _, _)
ResolveLoop(tail, where, aliased) ==
    IF Len(tail) > 0 /\ tail[1] = "."
    THEN ResolveLoop(Tail(tail), SubSeq(where, 1, Len(where) - 1), FALSE)
    ELSE Bind(Find(tail, "."), LAMBDA dot :
         Bind(IF dot > 0 THEN SubSeq(tail, 1, dot - 1) ELSE tail, LAMBDA head :
         Bind(IF dot > 0 THEN SubSeq(tail, dot + 1, Len(tail)) ELSE <<>>, LAMBDA rest :
             IF HeadIndexed(head)
             THEN [ok |-> FALSE, err |-> "TypeError", where |-> where, aliased |-> aliased]
             ELSE IF rest = <<>>
             THEN [ok |-> TRUE, where |-> Append(where, PlainEntry(Join(head))),
                   aliased |-> aliased]
             ELSE ResolveLoop(rest, Append(where, PlainEntry(Join(head))), aliased))))

\* _ObjectTracker.resolve_relpath_to_id(relpath, curr): the ID, and curr as the
\* call leaves it (where is curr itself until the first leading dot is stripped)
resolve_relpath_to_id(tr, relpath, curr) ==
    Bind(ResolveLoop(relpath, curr, TRUE), LAMBDA r :
    Bind(IF r.aliased THEN r.where ELSE curr, LAMBDA curr2 :
        IF ~r.ok THEN [ok |-> FALSE, err |-> r.err, curr |-> curr2]
        ELSE IF path2key(r.where) \notin DOMAIN tr.path2id
        THEN [ok |-> FALSE, curr |-> curr2,
              \* the message of the RuntimeError unparses the keys of path2id,
              \* tuples of strings: str has no to_str
              err |-> IF \E k \in DOMAIN tr.path2id : k # <<>>
                      THEN "AttributeError" ELSE "RuntimeError"]
        ELSE [ok |-> TRUE, id |-> tr.path2id[path2key(r.where)], curr |-> curr2]))

\* for common in itertools.count(start=0): if curr[:common+1]!=abspath[:common+1]: break
RECURSIVE CommonLoop(_, _, _)
CommonLoop(curr, abspath, common) ==
    IF PyPrefix(curr, common + 1) # PyPrefix(abspath, common + 1) THEN common
    ELSE CommonLoop(curr, abspath, common + 1)

\* _ObjectTracker.resolve_id_to_relpath(id, curr): the relative string, or None;
\* curr is the list built by _get_object, id2path holds tuples
resolve_id_to_relpath(tr, id, curr) ==
    IF id \notin DOMAIN tr.id2path THEN NoneV
    ELSE Bind(CommonLoop(PyList(curr), tr.id2path[id], 0), LAMBDA common :
            Some([i \in 1..(Len(curr) - common) |-> "."]
                 \o _unparse_path(SubSeq(tr.id2path[id].items, common + 1,
                                         Len(tr.id2path[id].items)))))

(***************************************************************************)
(* Object records                                                          *)
(***************************************************************************)
\* an _api_value_to_db_rec__obj that hands an upstream of the input on
_api_value_to_db_rec__obj_keep(data) ==
    IF ~DictHas(data, "_meta") THEN [ok |-> TRUE, rec |-> JDict(<<>>)]
    ELSE LET meta == DictGet(data, "_meta") IN
         IF meta.t # "dict" THEN Err("TypeError")
         ELSE IF ~DictHas(meta, "id") THEN Err("KeyError")
         ELSE [ok |-> TRUE,
               rec |-> JDict(<<KV("_meta", JDict(<<KV("upstream",
                          IF DictHas(meta, "upstream") THEN DictGet(meta, "upstream")
                          ELSE DictGet(meta, "id"))>>))>>)]

\* _api_value_to_db_rec__obj(data): the record with the metadata taken over
_api_value_to_db_rec__obj(data) ==
    IF ~DictHas(data, "_meta") THEN [ok |-> TRUE, rec |-> JDict(<<>>)]
    ELSE LET meta == DictGet(data, "_meta") IN
         IF meta.t # "dict" THEN Err("TypeError")
         ELSE IF ~DictHas(meta, "id") THEN Err("KeyError")
         ELSE [ok |-> TRUE,
               rec |-> JDict(<<KV("_meta", JDict(<<KV("upstream", DictGet(meta, "id"))>>))>>)]

\* _db_rec_to_api_value__obj(klass, rec, parent): {'_meta': {...}} of the result
_db_rec_to_api_value__obj(klass, id, rec, parent) ==
    LET meta0 == IF DictHas(rec, "_meta") THEN DictGet(rec, "_meta") ELSE JDict(<<>>)
        meta1 == DictSet(DictSet(meta0, "id", JStr(<<id>>)), "type", JStr(<<klass>>))
        meta2 == IF parent # None THEN DictSet(meta1, "parent", JStr(<<parent>>)) ELSE meta1
    IN JDict(<<KV("_meta", meta2)>>)

(***************************************************************************)
(* POST: dms_api_object_post and its _new_object / _handle_link.           *)
(* The operators thread the store and the tracker through the recursion:   *)
(* a failure keeps the documents inserted before it.                       *)
(***************************************************************************)
Fail(kind, docs, tr) == [ok |-> FALSE, err |-> kind, docs |-> docs, tr |-> tr]

RECURSIVE _new_object(_, _, _, _, _, _)
RECURSIVE AttrLoop(_, _, _, _, _, _, _)
RECURSIVE LinkLoop(_, _, _, _, _, _, _, _, _)
RECURSIVE _handle_link(_, _, _, _, _, _, _, _)
RECURSIVE ApplyHandleLink(_, _, _, _, _, _, _)

\* a _handle_link that answers a relative path with the ID the store hands out next
_handle_link_fwd(schema, item, key, obj, index, path, docs, tr) ==
    IF _is_object_id(obj)
    THEN [ok |-> TRUE, val |-> obj, path |-> path, docs |-> docs, tr |-> tr]
    ELSE IF obj.t = "dict"
    THEN Bind(_new_object(schema, item.link, obj,
                          Append(path, IndexEntry(key, index)), docs, tr), LAMBDA r :
         IF r.ok THEN [ok |-> TRUE, val |-> JStr(<<r.id>>), path |-> path,
                       docs |-> r.docs, tr |-> r.tr]
         ELSE r)
    ELSE IF obj.t = "str"
    THEN Bind(resolve_relpath_to_id(tr, obj.s, path), LAMBDA rr :
         IF rr.ok THEN [ok |-> TRUE,
                        val |-> JStr(<<ObjectIdStr(Cardinality(DOMAIN docs) + 1)>>),
                        path |-> rr.curr, docs |-> docs, tr |-> tr]
         ELSE Fail(rr.err, docs, tr))
    ELSE Fail("ValueError", docs, tr)

\* _handle_link(obj, index): the ID to store, with the path list as the call leaves it
_handle_link(schema, item, key, obj, index, path, docs, tr) ==
    IF _is_object_id(obj)
    THEN [ok |-> TRUE, val |-> obj, path |-> path, docs |-> docs, tr |-> tr]
    ELSE IF obj.t = "dict"
    THEN Bind(_new_object(schema, item.link, obj,
                          Append(path, IndexEntry(key, index)), docs, tr), LAMBDA r :
         IF r.ok THEN [ok |-> TRUE, val |-> JStr(<<r.id>>), path |-> path,
                       docs |-> r.docs, tr |-> r.tr]
         ELSE r)
    ELSE IF obj.t = "str"
    THEN Bind(resolve_relpath_to_id(tr, obj.s, path), LAMBDA rr :
         IF rr.ok THEN [ok |-> TRUE, val |-> JStr(<<rr.id>>), path |-> rr.curr,
                        docs |-> docs, tr |-> tr]
         ELSE Fail(rr.err, docs, tr))
    ELSE Fail("ValueError", docs, tr)

\* _apply_link on a list link: _handle_link on every element, in order
LinkLoop(schema, item, key, elems, ix, acc, path, docs, tr) ==
    IF ix >= Len(elems)
    THEN [ok |-> TRUE, val |-> JList(acc), path |-> path, docs |-> docs, tr |-> tr]
    ELSE Bind(_handle_link(schema, item, key, elems[ix + 1], Some(ix), path, docs, tr),
              LAMBDA h :
         IF ~h.ok THEN h
         ELSE LinkLoop(schema, item, key, elems, ix + 1, Append(acc, h.val),
                       h.path, h.docs, h.tr))

\* _apply_link(item, val, func): func on the value, or on every element of a list
ApplyHandleLink(schema, item, key, val, path, docs, tr) ==
    IF Len(item.shape) = 1
    THEN LinkLoop(schema, item, key, val.items, 0, <<>>, path, docs, tr)
    ELSE _handle_link(schema, item, key, val, NoneV, path, docs, tr)

\* the loop over dta.items() of _new_object
AttrLoop(schema, klass, items, rec, path, docs, tr) ==
    IF items = <<>>
    THEN [ok |-> TRUE, rec |-> rec, path |-> path, docs |-> docs, tr |-> tr]
    ELSE LET key == Head(items).k
             val == Head(items).v
             klassSchema == schema[klass]
             item == klassSchema[key]
         IN
         IF key \notin DOMAIN klassSchema THEN Fail("AttributeError", docs, tr)
         ELSE IF item.link # None
         THEN IF Len(item.shape) > 0 /\ val.t # "list" THEN Fail("ValueError", docs, tr)
              ELSE Bind(ApplyHandleLink(schema, item, key, val, path, docs, tr), LAMBDA h :
                      IF ~h.ok THEN h
                      ELSE AttrLoop(schema, klass, Tail(items), DictSet(rec, key, h.val),
                                    h.path, h.docs, h.tr))
         ELSE Bind(_api_value_to_db_rec__attr(item, val), LAMBDA a :
              IF ~a.ok THEN Fail(a.err, docs, tr)
              ELSE AttrLoop(schema, klass, Tail(items), DictSet(rec, key, a.rec),
                            path, docs, tr))

\* _new_object(klass, dta, path, tracker): inserts the object after its attributes
_new_object(schema, klass, dta, path, docs, tr) ==
    IF klass \notin DOMAIN schema THEN Fail("AttributeError", docs, tr)
    ELSE Bind(_api_value_to_db_rec__obj(dta), LAMBDA r0 :
    IF ~r0.ok THEN Fail(r0.err, docs, tr)
    ELSE Bind(AttrLoop(schema, klass, DictPop(dta, "_meta").items,
                       r0.rec, path, docs, tr), LAMBDA loop :
    IF ~loop.ok THEN loop
    ELSE Bind(insert_one(loop.docs, klass, loop.rec), LAMBDA ins :
         [ok |-> TRUE, id |-> ins.id, docs |-> ins.docs,
          tr |-> add_tracked_object(loop.tr, loop.path, ins.id)])))

\* dms_api_object_post(db, type, data)
dms_api_object_post(schema, docs, type, data) ==
    _new_object(schema, type, data, <<>>, docs, EmptyTracker)

(***************************************************************************)
(* PATH RESOLVER: _resolve_path_head                                       *)
(***************************************************************************)
_ResolvedPath(obj, type, id, tail, parent) ==
    [obj |-> obj, type |-> type, id |-> id, tail |-> tail, parent |-> parent]

RECURSIVE _descend(_, _, _, _, _, _, _)
RECURSIVE DescendLinks(_, _, _, _, _, _, _, _)

\* for link in links: _descend(...), the resolved paths appended in order
DescendLinks(schema, docs, klass, links, path, level, parentId, acc) ==
    IF links = <<>> THEN [ok |-> TRUE, paths |-> acc]
    ELSE Bind(_descend(schema, docs, klass, Join(Head(links).s), path, level, parentId),
              LAMBDA r :
         IF ~r.ok THEN r
         ELSE DescendLinks(schema, docs, klass, Tail(links), path, level, parentId,
                           acc \o r.paths))

\* _resolve_path_head._descend: the resolved paths below (klass, dbId)
_descend(schema, docs, klass, dbId, path, level, parentId) ==
    IF ~Found(docs, klass, dbId) THEN Err("KeyError")
    ELSE IF klass \notin DOMAIN schema THEN Err("AttributeError")
    ELSE LET obj == docs[dbId].rec
             klassSchema == schema[klass]
         IN
         IF Len(path) = 0
         THEN [ok |-> TRUE,
               paths |-> <<_ResolvedPath(obj, klass, dbId, <<>>,
                                         IF level = 0 THEN None ELSE parentId)>>]
         ELSE LET ent == path[1] IN
              IF ent.attr \notin DOMAIN klassSchema THEN Err("KeyError")
              ELSE LET item == klassSchema[ent.attr] IN
                   IF item.link # None
                   THEN Bind(apply_indexing(ent, obj, item), LAMBDA links :
                        IF ~links.ok THEN links
                        ELSE DescendLinks(schema, docs, item.link, links.links,
                                          Tail(path), level + 1, dbId, <<>>))
                   ELSE [ok |-> TRUE,
                         paths |-> <<_ResolvedPath(obj, klass, dbId, path, parentId)>>]

\* _resolve_path_head(db, type, id, path): _ResolvedPaths(paths, isPlain)
_resolve_path_head(schema, docs, type, id, path) ==
    Bind(_parse_path(path), LAMBDA parsed :
    IF ~parsed.ok THEN parsed
    ELSE Bind(_descend(schema, docs, type, id, parsed.path, 0, None), LAMBDA r :
         Bind(\A i \in 1..Len(parsed.path) : isPlain(parsed.path[i]), LAMBDA plain :
            IF ~r.ok THEN r
            ELSE IF ~(Len(r.paths) = 1 \/ ~plain) THEN Err("AssertionError")
            ELSE [ok |-> TRUE, paths |-> r.paths, isPlain |-> plain])))

(***************************************************************************)
(* PATCH: dms_api_object_patch                                             *)
(***************************************************************************)
\* PatchData.data: Union[List[Dict[str,Any]],Dict[str,Any]]
PatchDataOK(data) ==
    \/ data.t = "dict"
    \/ data.t = "list" /\ \A i \in 1..Len(data.items) : data.items[i].t = "dict"

\* a find_one_and_update that leaves an attribute written before as it is
find_one_and_update_keep(docs, id, attr, rec) ==
    [docs EXCEPT ![id].rec = IF DictHas(@, attr) THEN @ ELSE DictSet(@, attr, rec)]

\* a find_one_and_update that removes an attribute already holding the value
find_one_and_update_toggle(docs, id, attr, rec) ==
    [docs EXCEPT ![id].rec = IF DictHas(@, attr) /\ DictGet(@, attr) = rec
                             THEN DictPop(@, attr) ELSE DictSet(@, attr, rec)]

\* a find_one_and_update without '$set': the document is replaced by the update
find_one_and_update_replace(docs, id, attr, rec) ==
    [docs EXCEPT ![id].rec = JDict(<<KV(attr, rec)>>)]

\* find_one_and_update({'_id': id}, {'$set': {attr: rec}})
find_one_and_update(docs, id, attr, rec) ==
    [docs EXCEPT ![id].rec = DictSet(@, attr, rec)]

\* the loop "for R,dat in zip(RR,data)": the writes made before a failure stay
RECURSIVE PatchLoop(_, _, _, _, _)
PatchLoop(schema, docs, paths, data, k) ==
    IF k > Len(paths) THEN [ok |-> TRUE, docs |-> docs]
    ELSE LET R == paths[k]
             ent == R.tail[1]
             item == schema[R.type][ent.attr]
         IN
         IF Len(R.tail) = 0 THEN [ok |-> FALSE, err |-> "ValueError", docs |-> docs]
         ELSE IF Len(R.tail) # 1 THEN [ok |-> FALSE, err |-> "AssertionError", docs |-> docs]
         ELSE IF ent.index # NoneV THEN [ok |-> FALSE, err |-> "ValueError", docs |-> docs]
         ELSE Bind(_api_value_to_db_rec__attr(item, data[k]), LAMBDA a :
              IF ~a.ok THEN [ok |-> FALSE, err |-> a.err, docs |-> docs]
              ELSE IF ~Found(docs, R.type, R.id)
                   THEN [ok |-> FALSE, err |-> "RuntimeError", docs |-> docs]
              ELSE PatchLoop(schema, find_one_and_update(docs, R.id, ent.attr, a.rec),
                             paths, data, k + 1))

\* a dms_api_object_patch that pairs targets and records as far as both last
dms_api_object_patch_zip(schema, docs, type, id, path, data) ==
    IF ~PatchDataOK(data) THEN [ok |-> FALSE, err |-> "ValidationError", docs |-> docs]
    ELSE Bind(_resolve_path_head(schema, docs, type, id, path), LAMBDA RR :
    IF ~RR.ok THEN [ok |-> FALSE, err |-> RR.err, docs |-> docs]
    ELSE Bind(IF data.t = "list" THEN data.items ELSE <<data>>, LAMBDA dataList :
         Bind(IF Len(RR.paths) < Len(dataList) THEN Len(RR.paths) ELSE Len(dataList),
              LAMBDA n : PatchLoop(schema, docs, SubSeq(RR.paths, 1, n),
                                   SubSeq(dataList, 1, n), 1))))

\* dms_api_object_patch(db, type, id, patchData)
dms_api_object_patch(schema, docs, type, id, path, data) ==
    IF ~PatchDataOK(data) THEN [ok |-> FALSE, err |-> "ValidationError", docs |-> docs]
    ELSE Bind(_resolve_path_head(schema, docs, type, id, path), LAMBDA RR :
    IF ~RR.ok THEN [ok |-> FALSE, err |-> RR.err, docs |-> docs]
    ELSE IF RR.isPlain /\ data.t # "dict"
         THEN [ok |-> FALSE, err |-> "ValueError", docs |-> docs]
    ELSE IF ~RR.isPlain /\ data.t # "list"
         THEN [ok |-> FALSE, err |-> "ValueError", docs |-> docs]
    ELSE Bind(IF RR.isPlain THEN <<data>> ELSE data.items, LAMBDA dataList :
         IF Len(RR.paths) # Len(dataList)
         THEN [ok |-> FALSE, err |-> "ValueError", docs |-> docs]
         ELSE PatchLoop(schema, docs, RR.paths, dataList, 1)))

(***************************************************************************)
(* GET: dms_api_path_get and its _get_object / _resolve.                   *)
(***************************************************************************)
RECURSIVE _get_object(_, _, _, _, _, _, _, _)
RECURSIVE GetAttrLoop(_, _, _, _, _, _, _, _, _)
RECURSIVE GetLinkLoop(_, _, _, _, _, _, _, _, _, _)
RECURSIVE _resolve(_, _, _, _, _, _, _, _, _)
RECURSIVE ApplyResolve(_, _, _, _, _, _, _, _)

\* a _resolve that descends into the objects of the shallow set as well
_resolve_deep(schema, docs, opt, item, key, obj, index, dbId, ptr) ==
    _get_object(schema, docs, opt, item.link, Join(obj.s), dbId,
                Append(ptr.path, IndexEntry(key, index)), ptr.tr)

\* opt = [max_level, tracking, meta, shallow]
_resolve(schema, docs, opt, item, key, obj, index, dbId, ptr) ==
    IF Join(obj.s) \in opt.shallow THEN [ok |-> TRUE, val |-> obj, tr |-> ptr.tr]
    ELSE _get_object(schema, docs, opt, item.link, Join(obj.s), dbId,
                     Append(ptr.path, IndexEntry(key, index)), ptr.tr)

\* _apply_link on a stored list link: _resolve on every element, in order
GetLinkLoop(schema, docs, opt, item, key, elems, ix, acc, dbId, ptr) ==
    IF ix >= Len(elems) THEN [ok |-> TRUE, val |-> JList(acc), tr |-> ptr.tr]
    ELSE Bind(_resolve(schema, docs, opt, item, key, elems[ix + 1], Some(ix), dbId, ptr),
              LAMBDA r :
         IF ~r.ok THEN r
         ELSE GetLinkLoop(schema, docs, opt, item, key, elems, ix + 1, Append(acc, r.val),
                          dbId, [ptr EXCEPT !.tr = r.tr]))

\* _apply_link(item, val, _resolve): on the value, or on every element of a list
ApplyResolve(schema, docs, opt, item, key, val, dbId, ptr) ==
    IF Len(item.shape) = 1
    THEN GetLinkLoop(schema, docs, opt, item, key, val.items, 0, <<>>, dbId, ptr)
    ELSE _resolve(schema, docs, opt, item, key, val, NoneV, dbId, ptr)

\* a loop over obj.items() that skips the links one level later
GetAttrLoop_deeper(schema, docs, opt, klass, dbId, items, ret, path, tr) ==
    IF items = <<>> THEN [ok |-> TRUE, val |-> ret, tr |-> tr]
    ELSE LET key == Head(items).k
             val == Head(items).v
             klassSchema == schema[klass]
             item == klassSchema[key]
         IN
         IF key = "_meta"
         THEN GetAttrLoop(schema, docs, opt, klass, dbId, Tail(items), ret, path, tr)
         ELSE IF key \notin DOMAIN klassSchema THEN Err("AttributeError")
         ELSE IF item.link # None
         THEN IF Len(path) = opt.max_level + 1
              THEN GetAttrLoop(schema, docs, opt, klass, dbId, Tail(items), ret, path, tr)
              ELSE Bind(ApplyResolve(schema, docs, opt, item, key, val, dbId,
                                     [path |-> path, tr |-> tr]), LAMBDA r :
                      IF ~r.ok THEN r
                      ELSE GetAttrLoop(schema, docs, opt, klass, dbId, Tail(items),
                                       DictSet(ret, key, r.val), path, r.tr))
         ELSE GetAttrLoop(schema, docs, opt, klass, dbId, Tail(items),
                          DictSet(ret, key, _db_rec_to_api_value__attr(item, val)), path, tr)

\* the loop over obj.items() of _get_object
GetAttrLoop(schema, docs, opt, klass, dbId, items, ret, path, tr) ==
    IF items = <<>> THEN [ok |-> TRUE, val |-> ret, tr |-> tr]
    ELSE LET key == Head(items).k
             val == Head(items).v
             klassSchema == schema[klass]
             item == klassSchema[key]
         IN
         IF key = "_meta"
         THEN GetAttrLoop(schema, docs, opt, klass, dbId, Tail(items), ret, path, tr)
         ELSE IF key \notin DOMAIN klassSchema THEN Err("AttributeError")
         ELSE IF item.link # None
         THEN IF Len(path) = opt.max_level
              THEN GetAttrLoop(schema, docs, opt, klass, dbId, Tail(items), ret, path, tr)
              ELSE Bind(ApplyResolve(schema, docs, opt, item, key, val, dbId,
                                     [path |-> path, tr |-> tr]), LAMBDA r :
                      IF ~r.ok THEN r
                      ELSE GetAttrLoop(schema, docs, opt, klass, dbId, Tail(items),
                                       DictSet(ret, key, r.val), path, r.tr))
         ELSE GetAttrLoop(schema, docs, opt, klass, dbId, Tail(items),
                          DictSet(ret, key, _db_rec_to_api_value__attr(item, val)), path, tr)

\* _get_object(klass, dbId, parentId, path, tracker)
_get_object(schema, docs, opt, klass, dbId, parentId, path, tr) ==
    Bind(IF opt.tracking THEN resolve_id_to_relpath(tr, dbId, path) ELSE NoneV, LAMBDA p :
    IF p # NoneV /\ p.v # <<>> THEN [ok |-> TRUE, val |-> JStr(p.v), tr |-> tr]
    ELSE IF opt.max_level >= 0 /\ Len(path) > opt.max_level
    THEN [ok |-> TRUE, val |-> JDict(<<>>), tr |-> tr]
    ELSE IF ~Found(docs, klass, dbId) THEN Err("KeyError")
    ELSE IF klass \notin DOMAIN schema THEN Err("AttributeError")
    ELSE Bind(_db_rec_to_api_value__obj(klass, dbId, docs[dbId].rec, parentId), LAMBDA ret0 :
         Bind(GetAttrLoop(schema, docs, opt, klass, dbId,
                          DictPop(docs[dbId].rec, "_meta").items,
                          IF ~opt.meta THEN DictPop(ret0, "_meta") ELSE ret0, path, tr),
              LAMBDA r :
            IF ~r.ok THEN r
            ELSE [ok |-> TRUE, val |-> r.val,
                  tr |-> IF opt.tracking THEN add_tracked_object(r.tr, path, dbId)
                         ELSE r.tr])))

\* the loop "for R in RR" of dms_api_path_get; an object (empty tail) is returned at once
RECURSIVE GetLoop(_, _, _, _, _, _)
GetLoop(schema, docs, opt, RR, k, ret) ==
    IF k > Len(RR.paths)
    THEN IF RR.isPlain THEN [ok |-> TRUE, val |-> ret[1]] ELSE [ok |-> TRUE, val |-> JList(ret)]
    ELSE LET R == RR.paths[k]
             ent == R.tail[1]
         IN
         IF Len(R.tail) = 0
         THEN Bind(_get_object(schema, docs, opt, R.type, R.id, R.parent, <<>>, EmptyTracker),
                   LAMBDA o : IF o.ok THEN [ok |-> TRUE, val |-> o.val] ELSE o)
         ELSE IF Len(R.tail) > 1 THEN Err("ValueError")
         ELSE IF ent.index # NoneV THEN Err("ValueError")
         ELSE IF ~DictHas(R.obj, ent.attr) THEN Err("KeyError")
         ELSE GetLoop(schema, docs, opt, RR, k + 1,
                      Append(ret, _db_rec_to_api_value__attr(schema[R.type][ent.attr],
                                                             DictGet(R.obj, ent.attr))))

\* dms_api_path_get(db, type, id, path, max_level, tracking, meta, shallow)
dms_api_path_get(schema, docs, type, id, path, opt) ==
    Bind(_resolve_path_head(schema, docs, type, id, path), LAMBDA RR :
        IF ~RR.ok THEN RR ELSE GetLoop(schema, docs, opt, RR, 1, <<>>))

GetOpt(max_level, tracking, meta, shallow) ==
    [max_level |-> max_level, tracking |-> tracking, meta |-> meta, shallow |-> shallow]

(***************************************************************************)
(* CLONE: dms_api_path_clone_get                                           *)
(***************************************************************************)
dms_api_path_clone_get(schema, docs, type, id, shallow) ==
    Bind(dms_api_path_get(schema, docs, type, id, <<>>, GetOpt(-1, TRUE, TRUE, shallow)),
         LAMBDA dump :
            IF ~dump.ok THEN Fail(dump.err, docs, EmptyTracker)
            ELSE dms_api_object_post(schema, docs, type, dump.val))

(***************************************************************************)
(* LINK GRAPH and SAFE-LINKS: _make_link_digraph, dms_api_path_safe_links. *)
(***************************************************************************)
\* _LinkTracker()
_LinkTracker == [nodes |-> {}, edges |-> {}]

RECURSIVE DigraphDescend(_, _, _, _, _)
RECURSIVE DigraphAttrs(_, _, _, _, _, _)
RECURSIVE DigraphLinks(_, _, _, _, _, _)

\* a _handle_link of _make_link_digraph that descends without recording the edge
DigraphLinks_no_edge(schema, docs, dbId, item, elems, lt) ==
    IF elems = <<>> THEN [ok |-> TRUE, lt |-> lt]
    ELSE Bind(DigraphDescend(schema, docs, item.link, Join(Head(elems).s), lt),
              LAMBDA r : IF ~r.ok THEN r
                         ELSE DigraphLinks(schema, docs, dbId, item, Tail(elems), r.lt))

\* _apply_link(item, val, _handle_link) of _make_link_digraph: the edge to every
\* linked object, then the descent into it
DigraphLinks(schema, docs, dbId, item, elems, lt) ==
    IF elems = <<>> THEN [ok |-> TRUE, lt |-> lt]
    ELSE Bind(DigraphDescend(schema, docs, item.link, Join(Head(elems).s),
                             [lt EXCEPT !.edges = @ \cup {<<dbId, Join(Head(elems).s)>>}]),
              LAMBDA r : IF ~r.ok THEN r
                         ELSE DigraphLinks(schema, docs, dbId, item, Tail(elems), r.lt))

\* the loop over obj.items() of _make_link_digraph._descend
DigraphAttrs(schema, docs, klass, dbId, items, lt) ==
    IF items = <<>> THEN [ok |-> TRUE, lt |-> lt]
    ELSE IF Head(items).k = "_meta"
    THEN DigraphAttrs(schema, docs, klass, dbId, Tail(items), lt)
    ELSE IF Head(items).k \notin DOMAIN schema[klass] THEN Err("KeyError")
    ELSE IF schema[klass][Head(items).k].link = None
    THEN DigraphAttrs(schema, docs, klass, dbId, Tail(items), lt)
    ELSE Bind(DigraphLinks(schema, docs, dbId, schema[klass][Head(items).k],
                           IF Len(schema[klass][Head(items).k].shape) = 1
                           THEN Head(items).v.items ELSE <<Head(items).v>>, lt),
              LAMBDA r : IF ~r.ok THEN r
                         ELSE DigraphAttrs(schema, docs, klass, dbId, Tail(items), r.lt))

\* _make_link_digraph._descend(klass, dbId, linkTracker)
DigraphDescend(schema, docs, klass, dbId, lt) ==
    IF ~Found(docs, klass, dbId) THEN Err("KeyError")
    ELSE IF klass \notin DOMAIN schema THEN Err("AttributeError")
    ELSE DigraphAttrs(schema, docs, klass, dbId, docs[dbId].rec.items,
                      [lt EXCEPT !.nodes = @ \cup {dbId}])

\* _make_link_digraph(db, type, id): (nodes, edges)
_make_link_digraph(schema, docs, type, id) ==
    Bind(DigraphDescend(schema, docs, type, id, _LinkTracker), LAMBDA r :
        IF ~r.ok THEN r ELSE [ok |-> TRUE, nodes |-> r.lt.nodes, edges |-> r.lt.edges])

\* the nodes joined to the nodes of seen by edges in either direction
RECURSIVE WeakReach(_, _)
WeakReach(edges, seen) ==
    Bind({e[2] : e \in {x \in edges : x[1] \in seen}}
            \cup {e[1] : e \in {x \in edges : x[2] \in seen}} \cup seen,
         LAMBDA more : IF more = seen THEN seen ELSE WeakReach(edges, more))

\* nx.is_weakly_connected(G)
is_weakly_connected(nodes, edges) ==
    \E n \in nodes : WeakReach(edges, {n}) = nodes

\* the nodes of the simple paths from cur to target that avoid the nodes of visited
RECURSIVE SimplePathNodes(_, _, _, _)
SimplePathNodes(edges, cur, target, visited) ==
    IF cur = target THEN {cur}
    ELSE Bind(UNION {SimplePathNodes(edges, e[2], target, visited \cup {cur}) :
                        e \in {x \in edges : x[1] = cur /\ x[2] \notin visited \cup {cur}}},
              LAMBDA below : IF below = {} THEN {} ELSE below \cup {cur})

\* the nodes of nx.all_simple_paths(G, source, target); whether the path of the
\* one node source counts when source = target is up to the networkx installed
all_simple_paths(edges, source, target, trivial) ==
    IF source = target THEN (IF trivial THEN {source} ELSE {})
    ELSE SimplePathNodes(edges, source, target, {})

\* the loop "for p in paths.split()": the leaf IDs of the modification paths
RECURSIVE ModIds(_, _, _, _, _, _)
ModIds(schema, docs, type, id, paths, acc) ==
    IF paths = <<>> THEN [ok |-> TRUE, ids |-> acc]
    ELSE Bind(_resolve_path_head(schema, docs, type, id, Head(paths)), LAMBDA RR :
            IF ~RR.ok THEN RR
            ELSE ModIds(schema, docs, type, id, Tail(paths),
                        acc \cup {RR.paths[k].id : k \in 1..Len(RR.paths)}))

\* dms_api_path_safe_links(db, type, id, paths): the set of the IDs returned
dms_api_path_safe_links(schema, docs, type, id, paths, trivial) ==
    Bind(ModIds(schema, docs, type, id, paths, {}), LAMBDA mod :
    IF ~mod.ok THEN mod
    ELSE Bind(_make_link_digraph(schema, docs, type, id), LAMBDA G :
    IF ~G.ok THEN G
    ELSE IF ~is_weakly_connected(G.nodes, G.edges) THEN Err("AssertionError")
    ELSE IF \E m \in mod.ids : m \notin G.nodes THEN Err("NodeNotFound")
    ELSE [ok |-> TRUE,
          ids |-> G.nodes \ UNION {all_simple_paths(G.edges, id, m, trivial) :
                                      m \in mod.ids}]))

(***************************************************************************)
(* The schemas of the database dms0 and the requests of the model.         *)
(***************************************************************************)
DB == "dms0"

\* the schema first imported
RawSchema1 ==
    [BeamState |->
        [beam |-> [link |-> "Beam"],
         cs |-> [link |-> "CrossSection"],
         csState |-> [link |-> "CrossSection", shape |-> <<-1>>],
         npointz |-> [dtype |-> "i"]],
     Beam |->
        [cs |-> [link |-> "CrossSection"],
         cs2 |-> [link |-> "CrossSection"],
         length |-> [dtype |-> "f", unit |-> "m"],
         height |-> [dtype |-> "i", unit |-> "m"]],
     CrossSection |->
        [eps_axial |-> [dtype |-> "f", unit |-> "mm"],
         rvePositions |-> [dtype |-> "i", shape |-> <<2>>]]]

\* the same schema with the unit of Beam.length changed
RawSchema2 ==
    [RawSchema1 EXCEPT !.Beam.length = [dtype |-> "f", unit |-> "mm"]]

RawSchemas == {RawSchema1, RawSchema2}

JFloat(n, d) == JNum("float", n, d)
Q(v, u) == JDict(<<KV("value", v), KV("unit", JStr(<<u>>))>>)
IdRef(n) == JStr(<<ObjectIdStr(n)>>)

\* a cross-section with one quantity
CS1 == JDict(<<KV("eps_axial", Q(JInt(5), "m"))>>)
CS0 == JDict(<<>>)

\* the bodies of the POST requests: <<type, data>>
PostInputs ==
    { <<"CrossSection", CS1>>,
      <<"CrossSection", JDict(<<KV("rvePositions", JList(<<JInt(1), JInt(2)>>))>>)>>,
      \* floats in a sequence for an integer attribute
      <<"CrossSection", JDict(<<KV("rvePositions", JList(<<JFloat(3, 2), JFloat(5, 2)>>))>>)>>,
      \* units converted on the way in
      <<"Beam", JDict(<<KV("length", Q(JInt(2500), "mm")),
                        KV("height", Q(JInt(2500), "mm"))>>)>>,
      \* a float for an integer attribute, as the value of a {value, unit} dict
      <<"Beam", JDict(<<KV("height", Q(JFloat(5, 2), "m"))>>)>>,
      \* a unit that does not convert
      <<"Beam", JDict(<<KV("length", Q(JInt(1), "s"))>>)>>,
      \* a bare float for an integer attribute
      <<"BeamState", JDict(<<KV("npointz", JFloat(5, 2))>>)>>,
      \* the relative reference of the test data
      <<"BeamState", JDict(<<KV("beam", JDict(<<KV("cs", CS1)>>)),
                             KV("cs", JStr(<<".", "beam", ".", "cs">>))>>)>>,
      \* a sibling reference inside a nested object
      <<"BeamState", JDict(<<KV("beam", JDict(<<KV("cs", CS0),
                                                KV("cs2", JStr(<<".", "cs">>))>>))>>)>>,
      <<"BeamState", JDict(<<KV("cs", CS1),
                             KV("beam", JDict(<<KV("cs", CS0),
                                                KV("cs2", JStr(<<".", "cs">>))>>))>>)>>,
      \* a reference through an element of a list link
      <<"BeamState", JDict(<<KV("csState", JList(<<CS0>>)),
                             KV("cs", JStr(<<".", "csState", "[", "0", "]">>))>>)>>,
      \* the same object twice in a list link, first reached through a scalar link
      <<"BeamState", JDict(<<KV("cs", CS1),
                             KV("csState", JList(<<JStr(<<".", "cs">>), JStr(<<".", "cs">>)>>))>>)>>,
      \* existing objects by ID, first reached through the list link
      <<"BeamState", JDict(<<KV("csState", JList(<<IdRef(1)>>)), KV("cs", IdRef(1))>>)>>,
      \* two objects in a list link
      <<"BeamState", JDict(<<KV("csState", JList(<<CS0, CS1>>))>>)>>,
      \* a nested object with the ID of no document, then an attribute that fails
      <<"BeamState", JDict(<<KV("beam", JDict(<<KV("cs", IdRef(MaxDocs + 2))>>)),
                             KV("npointz", JList(<<JFloat(3, 2)>>))>>)>>,
      \* a relative reference without a leading dot
      <<"BeamState", JDict(<<KV("beam", JDict(<<KV("cs", CS0),
                                                KV("cs2", JStr(<<"cs">>))>>))>>)>>
    }

\* the paths of the PATCH requests
PatchPaths ==
    { <<"eps_axial">>,
      <<"height">>,
      <<"beam", ".", "length">>,
      <<"cs", ".", "eps_axial">>,
      <<"csState", "[", ":", "]", ".", "eps_axial">>,
      <<"csState", "[", "0", ",", "0", "]", ".", "eps_axial">>,
      <<"csState", "[", ":", "]", ".", "eps_axial", "[", ":", "]">>,
      <<"beam">> }

\* the data of the PATCH requests
PatchDatas ==
    { Q(JInt(1), "m"), Q(JFloat(7, 2), "mm"),
      JList(<<Q(JInt(1), "m"), Q(JInt(2), "m")>>) }

(***************************************************************************)
(* SCHEMA storage and cache: dms_api_schema_post, dms_api_schema_get, GG.  *)
(***************************************************************************)
VARIABLES
    docs,        \* the object collections of the database
    schemaColl,  \* the documents of the collection 'schema'
    GG_SCH,      \* GG._SCH: the parsed schemas by database name
    resp,        \* the last request with its response
    nops,        \* the number of requests made
    pc,          \* where each request that runs concurrently with others stands
    loc          \* the local variables of each such request

vars == <<docs, schemaColl, GG_SCH, resp, nops, pc, loc>>

\* dms_api_schema_post(db, schema, force): the new content of the collection
dms_api_schema_post(coll, schema, force) ==
    IF coll # <<>> /\ ~force THEN [ok |-> FALSE, err |-> "ValueError", coll |-> coll]
    ELSE [ok |-> TRUE, coll |-> <<schema>>]

\* dms_api_schema_get(db)
dms_api_schema_get(coll) ==
    IF coll = <<>> THEN Err("KeyError") ELSE [ok |-> TRUE, raw |-> coll[1]]

\* GG.schema_get(db): the schema, and the cache as the call leaves it
schema_get(sch, coll) ==
    IF DB \in DOMAIN sch THEN [ok |-> TRUE, schema |-> sch[DB], sch |-> sch]
    ELSE Bind(dms_api_schema_get(coll), LAMBDA raw :
         IF ~raw.ok THEN [ok |-> FALSE, err |-> raw.err, sch |-> sch]
         ELSE Bind(SchemaSchema_parse_obj(raw.raw), LAMBDA parsed :
              IF ~parsed.ok THEN [ok |-> FALSE, err |-> parsed.err, sch |-> sch]
              ELSE [ok |-> TRUE, schema |-> parsed.schema, sch |-> (DB :> parsed.schema)]))

\* GG.schema_invalidate_cache()
schema_invalidate_cache(sch) == <<>>

(***************************************************************************)
(* The requests.                                                           *)
(***************************************************************************)
\* the server after start-up: schema_import_maybe has imported the schema (cache
\* empty) or found one (cache filled); no objects yet
Init ==
    /\ docs = <<>>
    /\ schemaColl = <<RawSchema1>>
    /\ GG_SCH \in {<<>>, (DB :> SchemaSchema_parse_obj(RawSchema1).schema)}
    /\ resp = [op |-> "none"]
    /\ nops = 0
    /\ pc = <<>>
    /\ loc = <<>>

\* POST /{db}/{type}
Post(type, data) ==
    /\ nops < MaxOps
    /\ \E sg \in {schema_get(GG_SCH, schemaColl)} :
        /\ sg.ok
        /\ \E r \in {dms_api_object_post(sg.schema, docs, type, data)} :
            /\ Cardinality(DOMAIN r.docs) <= MaxDocs
            /\ docs' = r.docs
            /\ GG_SCH' = sg.sch
            /\ resp' = IF r.ok THEN [op |-> "post", type |-> type, data |-> data,
                                     ok |-> TRUE, id |-> r.id]
                       ELSE [op |-> "post", type |-> type, data |-> data,
                             ok |-> FALSE, err |-> r.err]
    /\ nops' = nops + 1
    /\ UNCHANGED <<schemaColl, pc, loc>>

\* PATCH /{db}/{type}/{id}
Patch(type, id, path, data) ==
    /\ nops < MaxOps
    /\ \E sg \in {schema_get(GG_SCH, schemaColl)} :
        /\ sg.ok
        /\ \E r \in {dms_api_object_patch(sg.schema, docs, type, id, path, data)} :
            /\ docs' = r.docs
            /\ GG_SCH' = IF PatchDataOK(data) /\ _parse_path(path).ok /\ Found(docs, type, id)
                         THEN sg.sch ELSE GG_SCH
            /\ resp' = IF r.ok THEN [op |-> "patch", type |-> type, id |-> id, path |-> path,
                                     data |-> data, ok |-> TRUE]
                       ELSE [op |-> "patch", type |-> type, id |-> id, path |-> path,
                             data |-> data, ok |-> FALSE, err |-> r.err]
    /\ nops' = nops + 1
    /\ UNCHANGED <<schemaColl, pc, loc>>

\* GET /{db}/{type}/{id}/clone
Clone(type, id, shallow) ==
    /\ nops < MaxOps
    /\ \E sg \in {schema_get(GG_SCH, schemaColl)} :
        /\ sg.ok
        /\ \E r \in {dms_api_path_clone_get(sg.schema, docs, type, id, shallow)} :
            /\ Cardinality(DOMAIN r.docs) <= MaxDocs
            /\ docs' = r.docs
            /\ GG_SCH' = IF Found(docs, type, id) THEN sg.sch ELSE GG_SCH
            /\ resp' = IF r.ok THEN [op |-> "clone", type |-> type, id |-> id,
                                     shallow |-> shallow, ok |-> TRUE, new |-> r.id]
                       ELSE [op |-> "clone", type |-> type, id |-> id,
                             shallow |-> shallow, ok |-> FALSE, err |-> r.err]
    /\ nops' = nops + 1
    /\ UNCHANGED <<schemaColl, pc, loc>>

\* POST /{db}/schema: the cache is left as it is
SchemaPost(schema, force) ==
    /\ nops < MaxOps
    /\ \E r \in {dms_api_schema_post(schemaColl, schema, force)} :
        /\ schemaColl' = r.coll
        /\ resp' = [op |-> "schema_post", force |-> force, ok |-> r.ok]
    /\ nops' = nops + 1
    /\ UNCHANGED <<docs, GG_SCH, pc, loc>>

\* GG.schema_import(db, json_str, force): post, then invalidate the cache
schema_import(schema, force) ==
    /\ nops < MaxOps
    /\ \E r \in {dms_api_schema_post(schemaColl, schema, force)} :
        /\ schemaColl' = r.coll
        /\ GG_SCH' = IF r.ok THEN schema_invalidate_cache(GG_SCH) ELSE GG_SCH
        /\ resp' = [op |-> "schema_import", force |-> force, ok |-> r.ok]
    /\ nops' = nops + 1
    /\ UNCHANGED <<docs, pc, loc>>

Next ==
    \/ \E in \in PostInputs : Post(in[1], in[2])
    \/ \E id \in DOMAIN docs : \E path \in PatchPaths : \E data \in PatchDatas :
          Patch(docs[id].klass, id, path, data)
    \/ \E id \in DOMAIN docs : \E shallow \in SUBSET (DOMAIN docs) :
          Clone(docs[id].klass, id, shallow)
    \/ \E schema \in RawSchemas : \E force \in BOOLEAN : SchemaPost(schema, force)
    \/ \E schema \in RawSchemas : \E force \in BOOLEAN : schema_import(schema, force)

Spec == Init /\ [][Next]_vars


(***************************************************************************)
(* One schema re-import running concurrently with schema lookups: the      *)
(* store calls and the accesses to GG._SCH of GG.schema_import and         *)
(* GG.schema_get, one step each                                            *)
(***************************************************************************)
Importer == "w"
Lookups == {"r1", "r2"}

\* dms_api_schema_post: s = coll.find_one(), and the check of force
import_find_one ==
    /\ pc[Importer] = "find_one"
    /\ \E s \in {IF schemaColl = <<>> THEN NoneV ELSE Some(schemaColl[1])} :
        /\ loc' = [loc EXCEPT ![Importer].s = s]
        /\ pc' = [pc EXCEPT ![Importer] =
                     IF s # NoneV /\ ~loc[Importer].force THEN "failed"
                     ELSE IF s # NoneV THEN "delete_one" ELSE "insert_one"]
    /\ UNCHANGED <<docs, schemaColl, GG_SCH, resp, nops>>

\* dms_api_schema_post: coll.delete_one(s)
import_delete_one ==
    /\ pc[Importer] = "delete_one"
    /\ schemaColl' = IF schemaColl # <<>> /\ schemaColl[1] = loc[Importer].s.v
                     THEN Tail(schemaColl) ELSE schemaColl
    /\ pc' = [pc EXCEPT ![Importer] = "insert_one"]
    /\ UNCHANGED <<docs, GG_SCH, resp, nops, loc>>

\* dms_api_schema_post: coll.insert_one(schema)
import_insert_one ==
    /\ pc[Importer] = "insert_one"
    /\ schemaColl' = Append(schemaColl, loc[Importer].schema)
    /\ pc' = [pc EXCEPT ![Importer] = "invalidate"]
    /\ UNCHANGED <<docs, GG_SCH, resp, nops, loc>>

\* GG.schema_import: GG.schema_invalidate_cache()
import_invalidate_cache ==
    /\ pc[Importer] = "invalidate"
    /\ GG_SCH' = schema_invalidate_cache(GG_SCH)
    /\ pc' = [pc EXCEPT ![Importer] = "done"]
    /\ UNCHANGED <<docs, schemaColl, resp, nops, loc>>

\* GG.schema_get: if db not in GG._SCH
get_cache_check(r) ==
    /\ pc[r] = "check"
    /\ pc' = [pc EXCEPT ![r] = IF DB \in DOMAIN GG_SCH THEN "return" ELSE "find_one"]
    /\ UNCHANGED <<docs, schemaColl, GG_SCH, resp, nops, loc>>

\* GG.schema_get: rawSchema = dms_api_schema_get(db), KeyError when there is none
get_find_one(r) ==
    /\ pc[r] = "find_one"
    /\ \E raw \in {dms_api_schema_get(schemaColl)} :
        /\ pc' = [pc EXCEPT ![r] = IF raw.ok THEN "fill" ELSE "failed"]
        /\ loc' = [loc EXCEPT ![r] = IF raw.ok THEN [@ EXCEPT !.raw = Some(raw.raw)]
                                     ELSE [@ EXCEPT !.err = raw.err]]
    /\ UNCHANGED <<docs, schemaColl, GG_SCH, resp, nops>>

\* GG.schema_get: GG._SCH[db] = SchemaSchema.parse_obj(rawSchema)
get_cache_fill(r) ==
    /\ pc[r] = "fill"
    /\ \E parsed \in {SchemaSchema_parse_obj(loc[r].raw.v)} :
        /\ GG_SCH' = IF parsed.ok
                     THEN [d \in DOMAIN GG_SCH \cup {DB} |->
                              IF d = DB THEN parsed.schema ELSE GG_SCH[d]]
                     ELSE GG_SCH
        /\ pc' = [pc EXCEPT ![r] = IF parsed.ok THEN "return" ELSE "failed"]
        /\ loc' = [loc EXCEPT ![r].err = IF parsed.ok THEN @ ELSE parsed.err]
    /\ UNCHANGED <<docs, schemaColl, resp, nops>>

\* GG.schema_get: return GG._SCH[db], KeyError when the entry is not there
get_return(r) ==
    /\ pc[r] = "return"
    /\ pc' = [pc EXCEPT ![r] = IF DB \in DOMAIN GG_SCH THEN "done" ELSE "failed"]
    /\ loc' = [loc EXCEPT ![r] = IF DB \in DOMAIN GG_SCH
                                 THEN [@ EXCEPT !.ret = Some(GG_SCH[DB])]
                                 ELSE [@ EXCEPT !.err = "KeyError"]]
    /\ UNCHANGED <<docs, schemaColl, GG_SCH, resp, nops>>

\* a database with a schema, the cache empty or filled; the import and the
\* lookups are about to start
InitCache ==
    /\ docs = <<>>
    /\ schemaColl = <<RawSchema1>>
    /\ GG_SCH \in {<<>>, (DB :> SchemaSchema_parse_obj(RawSchema1).schema)}
    /\ resp = [op |-> "none"]
    /\ nops = 0
    /\ pc = [p \in Lookups \cup {Importer} |-> IF p = Importer THEN "find_one" ELSE "check"]
    /\ \E schema \in RawSchemas : \E force \in BOOLEAN :
          loc = [p \in Lookups \cup {Importer} |->
                    IF p = Importer THEN [schema |-> schema, force |-> force, s |-> NoneV]
                    ELSE [raw |-> NoneV, ret |-> NoneV, err |-> None]]

NextCache ==
    \/ import_find_one
    \/ import_delete_one
    \/ import_insert_one
    \/ import_invalidate_cache
    \/ \E r \in Lookups : get_cache_check(r)
    \/ \E r \in Lookups : get_find_one(r)
    \/ \E r \in Lookups : get_cache_fill(r)
    \/ \E r \in Lookups : get_return(r)

SpecCache == InitCache /\ [][NextCache]_vars

(***************************************************************************)
(* Two PATCH requests running concurrently: the resolution of the path and *)
(* the checks of the data are one step, each find_one_and_update of the    *)
(* write loop is one step                                                  *)
(***************************************************************************)
Patchers == {"p1", "p2"}

\* dms_api_object_patch up to the write loop: the resolved paths and the data
\* paired with them
PatchHead(schema, dd, type, id, path, data) ==
    IF ~PatchDataOK(data) THEN Err("ValidationError")
    ELSE Bind(_resolve_path_head(schema, dd, type, id, path), LAMBDA RR :
    IF ~RR.ok THEN Err(RR.err)
    ELSE IF RR.isPlain /\ data.t # "dict" THEN Err("ValueError")
    ELSE IF ~RR.isPlain /\ data.t # "list" THEN Err("ValueError")
    ELSE Bind(IF RR.isPlain THEN <<data>> ELSE data.items, LAMBDA dataList :
         IF Len(RR.paths) # Len(dataList) THEN Err("ValueError")
         ELSE [ok |-> TRUE, paths |-> RR.paths, items |-> dataList]))

\* a write that puts back the document read when the path was resolved, with
\* the attribute set
PatchWrite_snapshot(dd, R, attr, rec) ==
    [dd EXCEPT ![R.id].rec = DictSet(R.obj, attr, rec)]

\* the store call of the write loop, on the store as it is when it is made
PatchWrite(dd, R, attr, rec) == find_one_and_update(dd, R.id, attr, rec)

\* one iteration of the write loop
PatchStep(schema, dd, R, dat) ==
    IF Len(R.tail) = 0 THEN [ok |-> FALSE, err |-> "ValueError"]
    ELSE IF Len(R.tail) # 1 THEN [ok |-> FALSE, err |-> "AssertionError"]
    ELSE IF R.tail[1].index # NoneV THEN [ok |-> FALSE, err |-> "ValueError"]
    ELSE Bind(_api_value_to_db_rec__attr(schema[R.type][R.tail[1].attr], dat), LAMBDA a :
         IF ~a.ok THEN [ok |-> FALSE, err |-> a.err]
         ELSE IF ~Found(dd, R.type, R.id) THEN [ok |-> FALSE, err |-> "RuntimeError"]
         ELSE [ok |-> TRUE, id |-> R.id, attr |-> R.tail[1].attr, rec |-> a.rec,
               docs |-> PatchWrite(dd, R, R.tail[1].attr, a.rec)])

\* RR=_resolve_path_head(...) and the checks of the data
patch_resolve(p) ==
    /\ pc[p] = "resolve"
    /\ \E sg \in {schema_get(GG_SCH, schemaColl)} :
        /\ sg.ok
        /\ \E h \in {PatchHead(sg.schema, docs, loc[p].type, loc[p].id,
                               loc[p].path, loc[p].data)} :
            /\ pc' = [pc EXCEPT ![p] = IF ~h.ok THEN "failed"
                                       ELSE IF h.paths = <<>> THEN "done" ELSE "write"]
            /\ loc' = [loc EXCEPT ![p] = IF h.ok
                                         THEN [@ EXCEPT !.paths = h.paths, !.items = h.items]
                                         ELSE [@ EXCEPT !.err = h.err]]
        /\ GG_SCH' = IF PatchDataOK(loc[p].data) /\ _parse_path(loc[p].path).ok
                        /\ Found(docs, loc[p].type, loc[p].id)
                     THEN sg.sch ELSE GG_SCH
    /\ UNCHANGED <<docs, schemaColl, resp, nops>>

\* the body of "for R,dat in zip(RR,data)", once
patch_write(p) ==
    /\ pc[p] = "write"
    /\ \E sg \in {schema_get(GG_SCH, schemaColl)} :
        /\ sg.ok
        /\ \E w \in {PatchStep(sg.schema, docs, Head(loc[p].paths), Head(loc[p].items))} :
            /\ docs' = IF w.ok THEN w.docs ELSE docs
            /\ pc' = [pc EXCEPT ![p] = IF ~w.ok THEN "failed"
                                       ELSE IF Len(loc[p].paths) = 1 THEN "done"
                                       ELSE "write"]
            /\ loc' = [loc EXCEPT ![p] =
                          IF w.ok
                          THEN [@ EXCEPT !.paths = Tail(@), !.items = Tail(@),
                                         !.wrote = Append(@, [id |-> w.id, attr |-> w.attr,
                                                              rec |-> w.rec])]
                          ELSE [@ EXCEPT !.err = w.err]]
        /\ GG_SCH' = sg.sch
    /\ UNCHANGED <<schemaColl, resp, nops>>

\* the objects of one successful POST, and two PATCH requests about to start
InitPatch ==
    /\ schemaColl = <<RawSchema1>>
    /\ GG_SCH = (DB :> SchemaSchema_parse_obj(RawSchema1).schema)
    /\ resp = [op |-> "none"]
    /\ nops = 0
    /\ \E in \in PostInputs :
       \E r \in {dms_api_object_post(SchemaSchema_parse_obj(RawSchema1).schema, <<>>,
                                     in[1], in[2])} :
          /\ r.ok
          /\ docs = r.docs
          /\ \E id1, id2 \in DOMAIN r.docs :
             \E path1, path2 \in PatchPaths : \E data1, data2 \in PatchDatas :
                loc = [p \in Patchers |->
                          [type |-> r.docs[IF p = "p1" THEN id1 ELSE id2].klass,
                           id |-> IF p = "p1" THEN id1 ELSE id2,
                           path |-> IF p = "p1" THEN path1 ELSE path2,
                           data |-> IF p = "p1" THEN data1 ELSE data2,
                           paths |-> <<>>, items |-> <<>>, wrote |-> <<>>, err |-> None]]
    /\ pc = [p \in Patchers |-> "resolve"]

NextPatch ==
    \/ \E p \in Patchers : patch_resolve(p)
    \/ \E p \in Patchers : patch_write(p)

SpecPatch == InitPatch /\ [][NextPatch]_vars

(***************************************************************************)
(* PROPERTIES                                                              *)
(***************************************************************************)
\* the schema a request arriving in this state works with (GG.schema_get)
CurSchema == schema_get(GG_SCH, schemaColl).schema

\* the options of a plain GET: full depth, no tracking, with metadata
PlainGet == GetOpt(-1, FALSE, TRUE, {})

QuantityAttrs(schema, klass) ==
    {k \in DOMAIN schema[klass] :
        schema[klass][k].link = None /\ is_a_quantity(schema[klass][k])}

\* the unit of a quantity as GET returns it, None when it has none
UnitOfRec(rec) ==
    IF rec.t = "dict" /\ DictHas(rec, "unit") THEN Join(DictGet(rec, "unit").s) ELSE None

\* GET of attribute k of object id returns it with unit u (none when u is None)
GetHasUnit(schema, dd, id, k, u) ==
    LET g == dms_api_path_get(schema, dd, dd[id].klass, id, <<k>>, PlainGet) IN
    g.ok /\ UnitOfRec(g.val) = u

\* C1 as stated: in every reachable state, a forced re-import that changes a unit
\* included, every quantity attribute returned by GET carries exactly the unit
\* the current schema declares for it, and no unit when the schema declares none.
C1_UnitOfCurrentSchema ==
    \A id \in DOMAIN docs :
        \A k \in QuantityAttrs(CurSchema, docs[id].klass) :
            DictHas(docs[id].rec, k) =>
                GetHasUnit(CurSchema, docs, id, k, CurSchema[docs[id].klass][k].unit)

\* attribute k of object id is written by the step: new, or other than before
Written(id, k) ==
    /\ DictHas(docs'[id].rec, k)
    /\ \/ id \notin DOMAIN docs
       \/ ~DictHas(docs[id].rec, k)
       \/ DictGet(docs[id].rec, k) # DictGet(docs'[id].rec, k)

\* C1 amended: every quantity attribute a request writes carries, when GET
\* returns it afterwards, the unit that the schema the request worked with
\* declares for it (none when it declares none); every other stored quantity
\* is returned with the unit it had before the request, a schema re-import
\* included.
C1_UnitOfSchemaAtWrite ==
    [][\A id \in DOMAIN docs' :
          LET klass == docs'[id].klass IN
          \A k \in QuantityAttrs(CurSchema', klass) :
              DictHas(docs'[id].rec, k) =>
                  IF Written(id, k)
                  THEN GetHasUnit(CurSchema', docs', id, k, CurSchema[klass][k].unit)
                  ELSE GetHasUnit(CurSchema', docs', id, k,
                                  UnitOfRec(DictGet(docs[id].rec, k)))]_vars

\* C1 witness: after a forced re-import that changes the unit of Beam.length,
\* GET returns a length written before it
C1_Witness ==
    /\ resp.op = "schema_import" /\ resp.ok
    /\ CurSchema["Beam"]["length"].unit = "mm"
    /\ \E id \in DOMAIN docs :
          /\ docs[id].klass = "Beam"
          /\ DictHas(docs[id].rec, "length")
          /\ GetHasUnit(CurSchema, docs, id, "length", "m")

\* the value and the unit of an input {value, unit}
InValue(v) == IF v.t = "dict" /\ DictHas(v, "value") THEN DictGet(v, "value") ELSE v
InUnit(v) ==
    IF v.t = "dict" /\ DictHas(v, "unit") /\ DictGet(v, "unit").t = "str"
    THEN Join(DictGet(v, "unit").s) ELSE None

\* the quantity attributes a request carries: <<id, class, attribute, input>>.
\* For POST those of the root object, for PATCH those the path resolves to.
RequestQuantities ==
    IF resp.op = "post" /\ resp.type \in DOMAIN CurSchema /\ resp.data.t = "dict"
    THEN {<<IF resp.ok THEN resp.id ELSE None, resp.type, resp.data.items[i].k,
            resp.data.items[i].v>> :
            i \in {j \in 1..Len(resp.data.items) :
                     resp.data.items[j].k \in QuantityAttrs(CurSchema, resp.type)}}
    ELSE IF resp.op = "patch"
    THEN LET RR == _resolve_path_head(CurSchema, docs, resp.type, resp.id, resp.path)
             dl == IF resp.data.t = "list" THEN resp.data.items ELSE <<resp.data>>
         IN IF ~RR.ok \/ Len(RR.paths) # Len(dl) THEN {}
            ELSE {<<RR.paths[i].id, RR.paths[i].type, RR.paths[i].tail[1].attr, dl[i]>> :
                    i \in {j \in 1..Len(dl) :
                             /\ Len(RR.paths[j].tail) = 1
                             /\ RR.paths[j].tail[1].attr
                                   \in QuantityAttrs(CurSchema, RR.paths[j].type)}}
    ELSE {}

\* C2 as stated: for every attribute whose schema declares a unit U and every
\* input {value: v, unit: V}, the request is rejected when V does not convert
\* to U, and otherwise the returned value equals convert(v, V, U) in unit U.
C2_ConvertedValue ==
    \A q \in RequestQuantities :
        LET item == CurSchema[q[2]][q[3]]
            V == InUnit(q[4])
        IN (item.unit # None /\ V # None /\ UnitParses(V)) =>
              IF ~compatible(V, item.unit) THEN ~resp.ok
              ELSE resp.ok =>
                     LET g == dms_api_path_get(CurSchema, docs, q[2], q[1], <<q[3]>>, PlainGet)
                     IN g.ok /\ g.val = Q(convert(InValue(q[4]), V, item.unit), item.unit)

\* the input holds a float: as a scalar, as the value of a dict or in a sequence
HasFloat(v) ==
    LET flat == _flatten(InValue(v)) IN
    \E i \in 1..Len(flat) : flat[i].t = "num" /\ flat[i].py = "float"

\* C3 as stated: an input that carries a float for an attribute of dtype 'i'
\* (bare scalar, value of a {value, unit} dict, or element of a nested
\* sequence) is rejected by POST and PATCH.
C3_FloatForIntRejected ==
    \A q \in RequestQuantities :
        (CurSchema[q[2]][q[3]].dtype = "i" /\ HasFloat(q[4])) => ~resp.ok

(***************************************************************************)
(* Link slots of an input and of the stored objects                        *)
(***************************************************************************)
\* the link slots of an input in the order they are written, nested objects
\* included: [path, klass, v] with path the absolute path of the slot
RECURSIVE SlotsOfItems(_, _, _, _)
RECURSIVE SlotsOfElems(_, _, _, _, _)
SlotsOfElems(schema, klass, elems, k, path) ==
    IF k > Len(elems) THEN <<>>
    ELSE LET p == Append(path, elems[k][1])
             v == elems[k][2]
         IN <<[path |-> p, klass |-> klass, v |-> v]>>
            \o (IF v.t = "dict" /\ klass \in DOMAIN schema
                THEN SlotsOfItems(schema, klass, v.items, p) ELSE <<>>)
            \o SlotsOfElems(schema, klass, elems, k + 1, path)

SlotsOfItems(schema, klass, items, path) ==
    IF items = <<>> THEN <<>>
    ELSE LET key == Head(items).k
             val == Head(items).v
             item == schema[klass][key]
             elems == IF Len(item.shape) = 1
                      THEN IF val.t = "list"
                           THEN [i \in 1..Len(val.items) |->
                                    <<IndexEntry(key, Some(i - 1)), val.items[i]>>]
                           ELSE <<>>
                      ELSE <<<<IndexEntry(key, NoneV), val>>>>
         IN (IF key \in DOMAIN schema[klass] /\ item.link # None
             THEN SlotsOfElems(schema, item.link, elems, 1, path) ELSE <<>>)
            \o SlotsOfItems(schema, klass, Tail(items), path)

InputSlots(schema, klass, data) ==
    IF data.t = "dict" /\ klass \in DOMAIN schema
    THEN SlotsOfItems(schema, klass, data.items, <<>>) ELSE <<>>

\* a relative reference: a string that starts with a dot
IsRel(v) == v.t = "str" /\ Len(v.s) >= 1 /\ v.s[1] = "."

RECURSIVE LeadingDots(_)
LeadingDots(s) == IF s # <<>> /\ s[1] = "." THEN 1 + LeadingDots(Tail(s)) ELSE 0

IsProperPrefix(p, q) == Len(p) < Len(q) /\ SubSeq(q, 1, Len(p)) = p

\* the absolute path a relative reference names, as specified: the leading dots
\* ascend from the slot (one dot: an attribute of the object holding the slot),
\* the rest descends from there
TargetPath(slotPath, s) ==
    LET dots == LeadingDots(s)
        up == Len(slotPath) - dots
        sfx == _parse_path(SubSeq(s, dots + 1, Len(s)))
    IN IF up < 0 \/ ~sfx.ok THEN [ok |-> FALSE]
       ELSE [ok |-> TRUE, path |-> SubSeq(slotPath, 1, up) \o sfx.path]

\* slot i of the input refers to an object the input defines before it
RefersBack(sl, i) ==
    /\ IsRel(sl[i].v)
    /\ LET T == TargetPath(sl[i].path, sl[i].v.s) IN
       /\ T.ok
       /\ \E j \in 1..(i - 1) :
             /\ sl[j].path = T.path
             /\ sl[j].v.t = "dict"
             /\ ~IsProperPrefix(sl[j].path, sl[i].path)

\* the ID stored at a path below object id, None when there is none
RECURSIVE ObjAt(_, _, _)
ObjAt(dd, id, path) ==
    IF path = <<>> \/ id = None THEN id
    ELSE IF id \notin DOMAIN dd \/ ~DictHas(dd[id].rec, path[1].attr) THEN None
    ELSE LET v == DictGet(dd[id].rec, path[1].attr)
             ix == path[1].index
         IN IF ix = NoneV
            THEN IF v.t = "str" THEN ObjAt(dd, Join(v.s), Tail(path)) ELSE None
            ELSE IF v.t = "list" /\ ix.v < Len(v.items) /\ v.items[ix.v + 1].t = "str"
                 THEN ObjAt(dd, Join(v.items[ix.v + 1].s), Tail(path)) ELSE None

\* the value at a path of a GET result, None when there is none
RECURSIVE ValAt(_, _)
ValAt(val, path) ==
    IF path = <<>> THEN val
    ELSE IF val.t # "dict" \/ ~DictHas(val, path[1].attr) THEN JStr(<<None>>)
    ELSE LET v == DictGet(val, path[1].attr)
             ix == path[1].index
         IN IF ix = NoneV THEN ValAt(v, Tail(path))
            ELSE IF v.t = "list" /\ ix.v < Len(v.items)
                 THEN ValAt(v.items[ix.v + 1], Tail(path)) ELSE JStr(<<None>>)

\* the errors that resolving a relative reference raises
ResolutionErrors == {"RuntimeError", "AttributeError", "TypeError"}

\* C4 as stated: a relative reference with k leading dots in a slot resolves to
\* the object defined earlier in the same request at the path obtained by
\* ascending from the slot (one dot: a sibling attribute of the object holding
\* the slot) and descending along the rest; the slot stores that object's ID.
C4_RelativeResolution ==
    resp.op = "post" =>
        LET sl == InputSlots(CurSchema, resp.type, resp.data) IN
        \A i \in 1..Len(sl) :
            RefersBack(sl, i) =>
                /\ ~resp.ok => resp.err \notin ResolutionErrors
                /\ resp.ok =>
                      /\ ObjAt(docs, resp.id, sl[i].path) # None
                      /\ ObjAt(docs, resp.id, sl[i].path)
                            = ObjAt(docs, resp.id, TargetPath(sl[i].path, sl[i].v.s).path)

\* the options of the GET that CLONE and the round trip use
TrackingGet == GetOpt(-1, TRUE, FALSE, {})

\* C5 as stated: a POST whose links are only nested objects and relative
\* references to objects defined earlier in the request, a reference through
\* a list element such as '.csState[0]' included, succeeds, stores links to
\* existing objects, and GET with tracking returns the same relative strings.
C5_RelativeRoundTrip ==
    resp.op = "post" =>
        LET sl == InputSlots(CurSchema, resp.type, resp.data) IN
        (/\ \E i \in 1..Len(sl) : IsRel(sl[i].v)
         /\ \A i \in 1..Len(sl) : sl[i].v.t = "dict" \/ RefersBack(sl, i)) =>
            /\ resp.ok
            /\ \A i \in 1..Len(sl) : ObjAt(docs, resp.id, sl[i].path) \in DOMAIN docs
            /\ LET g == dms_api_path_get(CurSchema, docs, resp.type, resp.id, <<>>, TrackingGet)
               IN g.ok /\ \A i \in 1..Len(sl) :
                             IsRel(sl[i].v) => ValAt(g.val, sl[i].path) = sl[i].v

(***************************************************************************)
(* CLONE: the link slots of an object paired with those of its clone       *)
(***************************************************************************)
\* _meta.upstream of a stored object, None when it has none
Upstream(dd, id) ==
    IF id \in DOMAIN dd /\ DictHas(dd[id].rec, "_meta")
       /\ DictHas(DictGet(dd[id].rec, "_meta"), "upstream")
    THEN Join(DictGet(DictGet(dd[id].rec, "_meta"), "upstream").s) ELSE None

\* the IDs a stored link attribute holds, in order
LinkIds(v) ==
    IF v.t = "list" THEN [i \in 1..Len(v.items) |-> Join(v.items[i].s)]
    ELSE <<Join(v.s)>>

\* <<x, y>> for every link slot below the original: x the ID the original
\* stores there, y the ID the clone b stores in the same slot (None when it
\* has none); slots below an ID of the shallow set are not visited
RECURSIVE PairsOfItems(_, _, _, _, _, _)
RECURSIVE PairsOfElems(_, _, _, _, _, _, _)
PairsOfElems(schema, dd, klass, xs, ys, k, shallow) ==
    IF k > Len(xs) THEN <<>>
    ELSE LET x == xs[k]
             y == IF k <= Len(ys) THEN ys[k] ELSE None
         IN <<<<x, y>>>>
            \o (IF x \notin shallow /\ x # y /\ x \in DOMAIN dd /\ y \in DOMAIN dd
                   /\ klass \in DOMAIN schema
                THEN PairsOfItems(schema, dd, klass, dd[x].rec.items, y, shallow)
                ELSE <<>>)
            \o PairsOfElems(schema, dd, klass, xs, ys, k + 1, shallow)

PairsOfItems(schema, dd, klass, items, b, shallow) ==
    IF items = <<>> THEN <<>>
    ELSE LET key == Head(items).k
             item == schema[klass][key]
         IN (IF key \in DOMAIN schema[klass] /\ item.link # None
             THEN PairsOfElems(schema, dd, item.link, LinkIds(Head(items).v),
                               IF DictHas(dd[b].rec, key)
                               THEN LinkIds(DictGet(dd[b].rec, key)) ELSE <<>>,
                               1, shallow)
             ELSE <<>>)
            \o PairsOfItems(schema, dd, klass, Tail(items), b, shallow)

\* the slot pairs of original a and clone b
ClonePairs(schema, dd, a, b, shallow) ==
    PairsOfItems(schema, dd, dd[a].klass, dd[a].rec.items, b, shallow)

\* the whole graph below the object can be read
Readable(dd, klass, id, shallow) ==
    dms_api_path_get(CurSchema, dd, klass, id, <<>>, GetOpt(-1, FALSE, TRUE, shallow)).ok

\* C6 as stated: CLONE of a readable object does not fail, and two link slots
\* of the clone (outside the shallow set) hold the same ID exactly when the
\* corresponding slots of the original do, also when the shared object is
\* first reached through an element of a list link.
C6_SharingPreserved ==
    (resp.op = "clone" /\ Readable(docs, resp.type, resp.id, resp.shallow)) =>
        /\ resp.ok
        /\ LET p == <<<<resp.id, resp.new>>>>
                    \o ClonePairs(CurSchema, docs, resp.id, resp.new, resp.shallow)
           IN \A i, j \in 1..Len(p) :
                 (p[i][1] \notin resp.shallow /\ p[j][1] \notin resp.shallow) =>
                     ((p[i][1] = p[j][1]) <=> (p[i][2] = p[j][2]))

\* C7 as stated: after CLONE of R gives R' (no shallow set), GET(R', tracking,
\* no metadata) equals GET(R, tracking, no metadata): same attribute values
\* with units, same structure, same relative-reference strings.
C7_CloneEqualsOriginal ==
    (resp.op = "clone" /\ resp.ok /\ resp.shallow = {}) =>
        LET a == dms_api_path_get(CurSchema, docs, resp.type, resp.id, <<>>, TrackingGet)
            b == dms_api_path_get(CurSchema, docs, resp.type, resp.new, <<>>, TrackingGet)
        IN a.ok /\ b.ok /\ a.val = b.val

\* the documents the step inserts
NewDocs == DOMAIN docs' \ DOMAIN docs

\* the step is a CLONE that succeeds
CloneStep == resp'.op = "clone" /\ resp'.ok

\* the slot pairs of the clone the step makes
StepPairs == ClonePairs(CurSchema', docs', resp'.id, resp'.new, resp'.shallow)

\* what CLONE with the shallow set S does to the slots and to the store; the
\* IDs of Kept are the ones CLONE makes no copy of
ShallowClone(S, Kept) ==
    /\ \A i \in 1..Len(StepPairs) : StepPairs[i][1] \in S => StepPairs[i][2] = StepPairs[i][1]
    /\ \A n \in NewDocs : Upstream(docs', n) \notin Kept
    /\ \A i \in 1..Len(StepPairs) :
          StepPairs[i][1] \notin S =>
              /\ StepPairs[i][2] \in NewDocs
              /\ Upstream(docs', StepPairs[i][2]) = StepPairs[i][1]
    /\ \A n \in NewDocs : n = resp'.new \/ \E i \in 1..Len(StepPairs) : StepPairs[i][2] = n

\* C8 as stated: for CLONE with a shallow set S, every slot of the clone graph
\* whose original target is in S stores the same ID, CLONE inserts no new
\* document for an object in S or for objects reachable only through it, and
\* every other reachable object is copied under a fresh ID.
C8_ShallowNotCopied ==
    [][CloneStep => ShallowClone(resp'.shallow, resp'.shallow)]_vars

\* C8 amended: the same for every object of S other than the root of the
\* CLONE; the root is always copied under a fresh ID, also when its ID is in S.
C8_ShallowBelowRoot ==
    [][CloneStep =>
          /\ ShallowClone(resp'.shallow, resp'.shallow \ {resp'.id})
          /\ resp'.new \in NewDocs
          /\ Upstream(docs', resp'.new) = resp'.id]_vars

\* C8 witness: a CLONE with a linked object in the shallow set has kept its ID
\* in the slot and copied the root
C8_Witness ==
    /\ resp.op = "clone" /\ resp.ok
    /\ resp.new # resp.id
    /\ \E x \in resp.shallow :
          /\ x # resp.id
          /\ \E k \in {"cs", "beam"} :
                /\ DictHas(docs[resp.id].rec, k)
                /\ DictGet(docs[resp.id].rec, k) = JStr(<<x>>)
                /\ DictGet(docs[resp.new].rec, k) = JStr(<<x>>)

\* the input holds a _meta somewhere
RECURSIVE HasMeta(_)
HasMeta(v) ==
    \/ v.t = "dict" /\ (DictHas(v, "_meta")
                        \/ \E i \in 1..Len(v.items) : HasMeta(v.items[i].v))
    \/ v.t = "list" /\ \E i \in 1..Len(v.items) : HasMeta(v.items[i])

\* C9: after a CLONE of R the record of the new root carries _meta.upstream = R
\* and the record of every copied nested object carries the ID of its original
\* (for a clone of a clone: the ID of the first clone); the objects a POST
\* without _meta creates carry no _meta.
C9_Upstream ==
    [][/\ CloneStep =>
             /\ resp'.new \in NewDocs
             /\ Upstream(docs', resp'.new) = resp'.id
             /\ \A i \in 1..Len(StepPairs) :
                   StepPairs[i][2] \in NewDocs =>
                       Upstream(docs', StepPairs[i][2]) = StepPairs[i][1]
       /\ (resp'.op = "post" /\ ~HasMeta(resp'.data)) =>
             \A n \in NewDocs : ~DictHas(docs'[n].rec, "_meta")]_vars

\* C9 witness: the clone of a clone, with a copied nested object
C9_Witness ==
    /\ resp.op = "clone" /\ resp.ok
    /\ Upstream(docs, resp.id) # None
    /\ Upstream(docs, resp.new) = resp.id
    /\ \E k \in {"cs", "beam"} :
          /\ DictHas(docs[resp.new].rec, k)
          /\ Upstream(docs, Join(DictGet(docs[resp.new].rec, k).s))
                = Join(DictGet(docs[resp.id].rec, k).s)

\* the PATCH request of the last step: the targets its path resolves to, its
\* data as a list, and the canonical form of element k
PatchRR == _resolve_path_head(CurSchema, docs, resp.type, resp.id, resp.path)
PatchList == IF resp.data.t = "list" THEN resp.data.items ELSE <<resp.data>>
Canon(k) ==
    LET R == PatchRR.paths[k] IN
    _api_value_to_db_rec__attr(CurSchema[R.type][R.tail[1].attr], PatchList[k]).rec
SameTarget(j, k) ==
    /\ PatchRR.paths[j].id = PatchRR.paths[k].id
    /\ PatchRR.paths[j].tail = PatchRR.paths[k].tail
\* the last element of the data written to the target of element k
LastFor(k) ==
    CHOOSE j \in k..Len(PatchList) :
        SameTarget(j, k) /\ \A j2 \in (j + 1)..Len(PatchList) : ~SameTarget(j2, k)

PatchGet == dms_api_path_get(CurSchema, docs, resp.type, resp.id, resp.path, PlainGet)

\* C10 as stated: after a successful PATCH(P, D), GET(P) returns the
\* canonicalized D in the same order, also when P holds duplicate indices or
\* resolves to shared targets.
C10_PatchThenGet ==
    (resp.op = "patch" /\ resp.ok) =>
        /\ PatchGet.ok
        /\ PatchGet.val = IF PatchRR.isPlain THEN Canon(1)
                          ELSE JList([k \in 1..Len(PatchList) |-> Canon(k)])

\* C10 amended: after a successful PATCH(P, D), element k of GET(P) is the
\* canonical form of the last element of D written to the target of element k;
\* it is the canonicalized D[k] when the targets are pairwise distinct.
C10_PatchThenGetLastWrite ==
    (resp.op = "patch" /\ resp.ok) =>
        /\ PatchGet.ok
        /\ PatchGet.val = IF PatchRR.isPlain THEN Canon(1)
                          ELSE JList([k \in 1..Len(PatchList) |-> Canon(LastFor(k))])

\* C10 witness: a PATCH has written two different values to one target
C10_Witness ==
    /\ resp.op = "patch" /\ resp.ok
    /\ \E j, k \in 1..Len(PatchList) :
          j < k /\ SameTarget(j, k) /\ Canon(j) # Canon(k)

(***************************************************************************)
(* C11: PATCH applied twice                                                *)
(***************************************************************************)
\* the request q made on the store dd under the schema sch
PatchOn(sch, dd, q) == dms_api_object_patch(sch, dd, q.type, q.id, q.path, q.data)

\* C11: a PATCH(P, D) made right after the same PATCH(P, D) leaves the store as
\* the first one left it, and it succeeds exactly when the first one did.
C11_PatchIdempotent ==
    [][(nops' # nops /\ resp'.op = "patch") =>
          \E dd \in {docs'} : \E q \in {resp'} :
          \E sch \in {schema_get(GG_SCH', schemaColl').schema} :
          \E again \in {PatchOn(sch, dd, q)} :
              /\ again.docs = dd
              /\ again.ok = q.ok]_vars

\* C11 witness: a PATCH over several targets has succeeded and would succeed again
C11_Witness ==
    /\ resp.op = "patch" /\ resp.ok
    /\ Len(PatchList) = 2
    /\ PatchOn(CurSchema, docs, resp).ok
    /\ PatchOn(CurSchema, docs, resp).docs = docs

(***************************************************************************)
(* C12: positional application of the data of a fan-out PATCH              *)
(***************************************************************************)
\* the store after record k, k+1, ... of items was set at target k, k+1, ... of paths
RECURSIVE WriteAll(_, _, _, _, _)
WriteAll(sch, dd, paths, items, k) ==
    IF k > Len(paths) THEN dd
    ELSE WriteAll(sch,
                  [dd EXCEPT ![paths[k].id].rec =
                      DictSet(@, paths[k].tail[1].attr,
                              _api_value_to_db_rec__attr(
                                  sch[paths[k].type][paths[k].tail[1].attr], items[k]).rec)],
                  paths, items, k + 1)

\* the number of records does not fit the resolved targets RR
Misfit(RR, data) ==
    \/ RR.isPlain /\ data.t = "list"
    \/ ~RR.isPlain /\ (data.t # "list" \/ Len(data.items) # Len(RR.paths))

\* C12: a successful PATCH over a non-plain path with n targets had a list of n
\* records and has set record k at target k, in resolver order; a PATCH whose
\* records do not fit the targets in number, or a plain path with a list, fails
\* with the store as it was.
C12_Positional ==
    [][(nops' # nops /\ resp'.op = "patch") =>
          \E dd \in {docs} : \E q \in {resp'} :
          \E sch \in {schema_get(GG_SCH, schemaColl).schema} :
          \E RR \in {_resolve_path_head(sch, dd, q.type, q.id, q.path)} :
              RR.ok =>
                 /\ (q.ok /\ ~RR.isPlain) =>
                       /\ q.data.t = "list" /\ Len(q.data.items) = Len(RR.paths)
                       /\ docs' = WriteAll(sch, dd, RR.paths, q.data.items, 1)
                 /\ Misfit(RR, q.data) => (~q.ok /\ docs' = dd)]_vars

\* C12 witness: a PATCH has set two records at two different objects
C12_Witness ==
    /\ resp.op = "patch" /\ resp.ok
    /\ ~PatchRR.isPlain /\ Len(PatchRR.paths) = 2
    /\ PatchRR.paths[1].id # PatchRR.paths[2].id
    /\ Canon(1) # Canon(2)
    /\ \A k \in 1..2 : DictGet(docs[PatchRR.paths[k].id].rec, "eps_axial") = Canon(k)

(***************************************************************************)
(* C13: the tail of a resolved path                                        *)
(***************************************************************************)
\* the tail of the resolved path R is one attribute without a subscript
GoodTail(R) == Len(R.tail) = 1 /\ ~hasSubscript(R.tail[1])

\* GET of the path of request q on the store dd under the schema sch
GetOn(sch, dd, q) == dms_api_path_get(sch, dd, q.type, q.id, q.path, PlainGet)

\* C13 as stated: a PATCH whose path resolves to a path with an empty tail, a
\* longer tail or a tail with any subscript fails and leaves the store as it
\* was, and GET fails as well for such a tail that is not empty.
C13_TailRejected ==
    [][(nops' # nops /\ resp'.op = "patch") =>
          \E dd \in {docs} : \E q \in {resp'} :
          \E sch \in {schema_get(GG_SCH, schemaColl).schema} :
          \E RR \in {_resolve_path_head(sch, dd, q.type, q.id, q.path)} :
              (RR.ok /\ \E k \in 1..Len(RR.paths) : ~GoodTail(RR.paths[k])) =>
                 /\ ~q.ok
                 /\ docs' = dd
                 /\ (\E k \in 1..Len(RR.paths) : Len(RR.paths[k].tail) > 0)
                       => ~GetOn(sch, dd, q).ok]_vars

(***************************************************************************)
(* C14: the shape of the result of GET                                     *)
(***************************************************************************)
\* the paths of the GET requests looked at
GetPaths ==
    { <<>>,
      <<"cs">>,
      <<"cs", ".", "eps_axial">>,
      <<"csState", "[", "0", "]">>,
      <<"csState", "[", ":", "]">>,
      <<"csState", "[", ":", "]", ".", "eps_axial">>,
      <<"csState", "[", "0", ",", "0", "]">> }

\* the result for one resolved path: the rendered object, or the attribute
OneResult(sch, dd, R) ==
    IF Len(R.tail) = 0
    THEN _get_object(sch, dd, PlainGet, R.type, R.id, R.parent, <<>>, EmptyTracker)
    ELSE [ok |-> TRUE,
          val |-> _db_rec_to_api_value__attr(sch[R.type][R.tail[1].attr],
                                             DictGet(R.obj, R.tail[1].attr))]

\* C14 as stated: a successful GET with a plain path returns the one result, and
\* with a non-plain path the list of the results of the resolved paths in
\* resolver order, also when the resolved paths end at objects.
C14_GetShape ==
    \A id \in DOMAIN docs : \A path \in GetPaths :
    \E sch \in {CurSchema} :
    \E RR \in {_resolve_path_head(sch, docs, docs[id].klass, id, path)} :
    \E g \in {dms_api_path_get(sch, docs, docs[id].klass, id, path, PlainGet)} :
        (RR.ok /\ g.ok) =>
            IF RR.isPlain THEN g.val = OneResult(sch, docs, RR.paths[1]).val
            ELSE g.val = JList([k \in 1..Len(RR.paths) |->
                                   OneResult(sch, docs, RR.paths[k]).val])

(***************************************************************************)
(* C15: max_level                                                          *)
(***************************************************************************)
MaxLevels == {-1, 0, 1, 2}

\* the keys of a dict, as a set
KeySet(d) == Elems(DictKeys(d))

\* the values of a link attribute, scalar or list, as a sequence
LinkElems(v) == IF v.t = "list" THEN v.items ELSE <<v>>

\* val renders the object (klass, id) found depth link hops below the root of a
\* GET with max_level L: the stored non-link attributes, and the stored link
\* attributes unless depth = L; what a link holds is rendered one hop deeper,
\* or is a string (a relative path to an object rendered before)
RECURSIVE DepthOK(_, _, _, _, _, _, _)
DepthOK(sch, dd, L, val, klass, id, depth) ==
    /\ val.t = "dict"
    /\ \E rec \in {DictPop(dd[id].rec, "_meta")} :
       /\ KeySet(val) \ {"_meta"} =
             {k \in KeySet(rec) : sch[klass][k].link = None \/ depth # L}
       /\ \A k \in KeySet(val) \ {"_meta"} :
             IF sch[klass][k].link = None
             THEN DictGet(val, k) = _db_rec_to_api_value__attr(sch[klass][k], DictGet(rec, k))
             ELSE /\ (DictGet(val, k).t = "list") = (DictGet(rec, k).t = "list")
                  /\ Len(LinkElems(DictGet(val, k))) = Len(LinkElems(DictGet(rec, k)))
                  /\ \A i \in 1..Len(LinkElems(DictGet(rec, k))) :
                        \/ LinkElems(DictGet(val, k))[i].t = "str"
                        \/ DepthOK(sch, dd, L, LinkElems(DictGet(val, k))[i],
                                   sch[klass][k].link,
                                   Join(LinkElems(DictGet(rec, k))[i].s), depth + 1)

\* C15: a successful GET with max_level L >= 0 returns the objects down to depth
\* L, those above depth L with all stored attributes and those at depth L with
\* the non-link attributes and without the link attributes; with max_level < 0
\* every object has all stored attributes.
C15_MaxLevel ==
    \A id \in DOMAIN docs : \A L \in MaxLevels : \A tracking \in BOOLEAN :
    \E sch \in {CurSchema} :
    \E g \in {dms_api_path_get(sch, docs, docs[id].klass, id, <<>>,
                               GetOpt(L, tracking, ~tracking, {}))} :
        g.ok => DepthOK(sch, docs, L, g.val, docs[id].klass, id, 0)

\* C15 witness: a GET with max_level 1 of an object that has objects two link
\* hops below it returns the linked beam without the link of the beam
C15_Witness ==
    \E id \in DOMAIN docs :
    \E g \in {dms_api_path_get(CurSchema, docs, docs[id].klass, id, <<>>,
                               GetOpt(1, TRUE, FALSE, {}))} :
        /\ docs[id].klass = "BeamState"
        /\ g.ok
        /\ DictHas(docs[id].rec, "beam")
        /\ DictHas(docs[Join(DictGet(docs[id].rec, "beam").s)].rec, "cs")
        /\ DictHas(g.val, "beam")
        /\ DictGet(g.val, "beam").t = "dict"
        /\ ~DictHas(DictGet(g.val, "beam"), "cs")

(***************************************************************************)
(* C16: POST and CLONE only insert                                         *)
(***************************************************************************)
\* C16: after a POST or a CLONE, successful or failed, every document of the
\* store before it is in the store unchanged; what the request has added is
\* under IDs that no document had.
C16_OnlyInserts ==
    [][(nops' # nops /\ resp'.op \in {"post", "clone"}) =>
          \A id \in DOMAIN docs : id \in DOMAIN docs' /\ docs'[id] = docs[id]]_vars

\* C16 witness: a CLONE has added documents to a store that keeps its source
C16_Witness ==
    /\ resp.op = "clone" /\ resp.ok
    /\ resp.new # resp.id
    /\ \E id \in DOMAIN docs : id \notin {resp.new, resp.id}
    /\ docs[resp.new].rec # docs[resp.id].rec

(***************************************************************************)
(* C17: the order of the inserts of one POST                               *)
(***************************************************************************)
\* the position of an ID in the order in which the store has handed out the IDs
IdNum(id) == CHOOSE n \in 1..IdSpace : ObjectIdStr(n) = id

\* the IDs in the link attributes of the stored document doc
StoredLinks(sch, doc) ==
    UNION { Elems(LinkIds(DictGet(doc.rec, k))) :
              k \in {a \in KeySet(doc.rec) \ {"_meta"} : sch[doc.klass][a].link # None} }

\* the ID strings a JSON value holds
RECURSIVE IdLits(_)
IdLits(v) ==
    IF v.t = "str" THEN (IF _is_object_id(v) THEN {Join(v.s)} ELSE {})
    ELSE IF v.t = "list" THEN UNION {IdLits(v.items[i]) : i \in DOMAIN v.items}
    ELSE IF v.t = "dict" THEN UNION {IdLits(v.items[i].v) : i \in DOMAIN v.items}
    ELSE {}

\* the IDs the request q itself hands to the links: those of the input of a
\* POST, those of the shallow set of a CLONE
GivenIds(q) == IF q.op = "post" THEN IdLits(q.data) ELSE q.shallow

\* C17: every document inserted by a POST (also by the POST of a CLONE, and by
\* one that fails later) holds in its links, apart from the IDs given in the
\* request, only IDs of documents inserted before it.
C17_ChildrenFirst ==
    [][(nops' # nops /\ resp'.op \in {"post", "clone"}) =>
          \E sch \in {schema_get(GG_SCH, schemaColl).schema} : \E q \in {resp'} :
          \A d \in NewDocs : \A v \in StoredLinks(sch, docs'[d]) :
              \/ v \in GivenIds(q)
              \/ v \in DOMAIN docs' /\ IdNum(v) < IdNum(d)]_vars

\* C17 witness: a POST of an object with a nested object and a relative
\* reference has stored both links with IDs handed out before its own
C17_Witness ==
    /\ resp.op = "post" /\ resp.ok /\ resp.type = "BeamState"
    /\ DictHas(resp.data, "beam") /\ DictGet(resp.data, "beam").t = "dict"
    /\ DictHas(resp.data, "cs") /\ DictGet(resp.data, "cs").t = "str"
    /\ ~_is_object_id(DictGet(resp.data, "cs"))
    /\ Join(DictGet(docs[resp.id].rec, "cs").s) \in DOMAIN docs
    /\ IdNum(Join(DictGet(docs[resp.id].rec, "beam").s)) < IdNum(resp.id)
    /\ IdNum(Join(DictGet(docs[resp.id].rec, "cs").s)) < IdNum(resp.id)

(***************************************************************************)
(* C18: referential integrity                                              *)
(***************************************************************************)
\* the link attributes of the stored document doc
LinkAttrs(sch, doc) ==
    {a \in KeySet(doc.rec) \ {"_meta"} : sch[doc.klass][a].link # None}

\* C18 as stated: every ID stored in a link attribute, scalar or element of a
\* list, names a document of the collection of the target type of the link.
C18_ReferentialIntegrity ==
    \A id \in DOMAIN docs : \A a \in LinkAttrs(CurSchema, docs[id]) :
    \A v \in Elems(LinkIds(DictGet(docs[id].rec, a))) :
        /\ v \in DOMAIN docs
        /\ docs[v].klass = CurSchema[docs[id].klass][a].link

(***************************************************************************)
(* C19: SAFE-LINKS                                                         *)
(***************************************************************************)
\* the lists of modification paths of the SAFE-LINKS requests looked at
SafePaths ==
    { <<>>,
      << <<"npointz">> >>,
      << <<"length">> >>,
      << <<"eps_axial">> >>,
      << <<"cs", ".", "eps_axial">> >>,
      << <<"beam", ".", "length">> >>,
      << <<"beam", ".", "cs", ".", "eps_axial">> >>,
      << <<"csState", "[", ":", "]", ".", "eps_axial">> >>,
      << <<"beam", ".", "length">>, <<"cs", ".", "eps_axial">> >> }

\* the IDs a link of the stored document id holds
LinkedFrom(sch, dd, id) == IF id \in DOMAIN dd THEN StoredLinks(sch, dd[id]) ELSE {}

\* the documents reached from the documents of seen over any number of links
RECURSIVE Reach(_, _, _)
Reach(sch, dd, seen) ==
    IF (UNION {LinkedFrom(sch, dd, n) : n \in seen}) \subseteq seen THEN seen
    ELSE Reach(sch, dd, seen \cup UNION {LinkedFrom(sch, dd, n) : n \in seen})

\* the IDs of the objects the modification paths resolve to
Targets(sch, dd, type, id, paths) ==
    UNION { {R.id : R \in Elems(_resolve_path_head(sch, dd, type, id, paths[i]).paths)} :
              i \in DOMAIN paths }

\* the nodes on a directed link path from the root to a target, ends included
Affected(sch, dd, id, targets) ==
    {n \in Reach(sch, dd, {id}) : \E t \in targets : t \in Reach(sch, dd, {n})}

\* C19 as stated: a successful SAFE-LINKS returns the nodes of the link graph of
\* the root minus the nodes on a directed link path from the root to an object
\* a modification path resolves to, ends included (the root as well); with no
\* modification paths it returns all nodes.
C19_SafeLinks ==
    \A id \in DOMAIN docs : \A paths \in SafePaths : \A trivial \in BOOLEAN :
    \E sch \in {CurSchema} :
    \E r \in {dms_api_path_safe_links(sch, docs, docs[id].klass, id, paths, trivial)} :
        r.ok =>
           /\ r.ids = Reach(sch, docs, {id})
                        \ Affected(sch, docs, id, Targets(sch, docs, docs[id].klass, id, paths))
           /\ paths = <<>> => r.ids = Reach(sch, docs, {id})

(***************************************************************************)
(* C20: plain paths and the number of resolved paths                       *)
(***************************************************************************)
\* the path string has identifiers and plain indices only
PlainTokens(path) == \A i \in DOMAIN path : path[i] \notin {":", ","}

\* the paths handed to the resolver
ResolverPaths == GetPaths \cup PatchPaths

\* C20 as stated: a path that resolves without error resolves to exactly one
\* path if and only if it is plain, and the isPlain flag of the result is true
\* exactly for plain paths.
C20_OneIffPlain ==
    \A id \in DOMAIN docs : \A path \in ResolverPaths :
    \E RR \in {_resolve_path_head(CurSchema, docs, docs[id].klass, id, path)} :
        RR.ok =>
           /\ (Len(RR.paths) = 1) <=> PlainTokens(path)
           /\ RR.isPlain <=> PlainTokens(path)

\* C20 amended: a plain path that resolves without error resolves to exactly
\* one path (a non-plain path to any number of paths, one included), and the
\* isPlain flag of the result is true exactly for plain paths.
C20_PlainThenOne ==
    \A id \in DOMAIN docs : \A path \in ResolverPaths :
    \E RR \in {_resolve_path_head(CurSchema, docs, docs[id].klass, id, path)} :
        RR.ok =>
           /\ PlainTokens(path) => Len(RR.paths) = 1
           /\ RR.isPlain <=> PlainTokens(path)

\* C20 witness: of one object, a path with a plain index resolves to one path
\* and a slice to two paths
C20_Witness ==
    \E id \in DOMAIN docs :
    \E one \in {_resolve_path_head(CurSchema, docs, docs[id].klass, id,
                                   <<"csState", "[", "0", "]">>)} :
    \E all \in {_resolve_path_head(CurSchema, docs, docs[id].klass, id,
                                   <<"csState", "[", ":", "]">>)} :
        /\ one.ok /\ one.isPlain /\ Len(one.paths) = 1
        /\ all.ok /\ ~all.isPlain /\ Len(all.paths) = 2

(***************************************************************************)
(* C21: the unparser and the parser                                        *)
(***************************************************************************)
\* the subscripts of the path strings looked at, as tokens
SubscriptStrings ==
    { <<>>,
      <<"[", "0", "]">>, <<"[", "-1", "]">>,
      <<"[", "0", ",", "]">>, <<"[", "0", ",", "1", "]">>,
      <<"[", "0", ",", "1", ",", "]">>, <<"[", "2", ",", "0", ",", "1", "]">>,
      <<"[", ":", "]">>, <<"[", ":", ":", "]">>, <<"[", "1", ":", "]">>,
      <<"[", ":", "2", "]">>, <<"[", "1", ":", "2", "]">>,
      <<"[", ":", ":", "2", "]">>, <<"[", "1", ":", ":", "-1", "]">>,
      <<"[", "1", ":", "2", ":", "-1", "]">> }

\* the path strings looked at: one segment, or two
PathStrings ==
    {<<"csState">> \o s : s \in SubscriptStrings}
    \cup {<<"csState">> \o s \o <<".", "eps_axial">> \o t :
             s \in SubscriptStrings, t \in {<<>>, <<"[", "0", "]">>, <<"[", "0", ",", "1", "]">>}}

\* the path string p survives parsing and unparsing
RoundTrips(p) ==
    \E parsed \in {_parse_path(p)} :
        parsed.ok =>
           \E again \in {_parse_path(_unparse_path(parsed.path))} :
              /\ again.ok
              /\ again.path = parsed.path
              /\ PlainTokens(p) => _unparse_path(parsed.path) = p

\* C21 as stated: for every path string p the parser accepts (the path of the
\* request just made among them), the unparsed parse of p is accepted and
\* parses to the entries of p, and it is p itself when p has identifiers and
\* plain indices only.
C21_UnparseInverse ==
    \A p \in PathStrings \cup (IF resp.op = "patch" THEN {resp.path} ELSE {}) :
        RoundTrips(p)


(***************************************************************************)
(* GET with tracking: the form of the relative references it emits         *)
(***************************************************************************)
\* the number of leading entries two paths share
RECURSIVE CommonPrefix(_, _)
CommonPrefix(p, q) ==
    IF p # <<>> /\ q # <<>> /\ Head(p) = Head(q)
    THEN 1 + CommonPrefix(Tail(p), Tail(q)) ELSE 0

Dots(n) == [i \in 1..n |-> "."]

\* the shortest relative reference from path C to path A
ShortestRef(C, A) ==
    Dots(Len(C) - CommonPrefix(C, A))
        \o _unparse_path(SubSeq(A, CommonPrefix(C, A) + 1, Len(A)))

\* C22 as stated: when GET with tracking meets, at path C, an object already
\* emitted at path A, it emits (|C| - common prefix length) dots followed by
\* the rest of A after the common prefix.
C22_ShortestReference ==
    \A id \in DOMAIN docs :
        LET g == dms_api_path_get(CurSchema, docs, docs[id].klass, id, <<>>, TrackingGet)
            sl == IF g.ok THEN InputSlots(CurSchema, docs[id].klass, g.val) ELSE <<>>
        IN \A i \in 1..Len(sl) :
              sl[i].v.t = "str" =>
                  \E j \in 1..Len(sl) :
                      /\ sl[j].v.t = "dict"
                      /\ ObjAt(docs, id, sl[j].path) = ObjAt(docs, id, sl[i].path)
                      /\ sl[i].v.s = ShortestRef(sl[i].path, sl[j].path)

\* the same without the references to an object that shares a leading part of
\* the path (the only case where the emitted string is not the shortest)
C22_SharedNoPrefix ==
    \A id \in DOMAIN docs :
        LET g == dms_api_path_get(CurSchema, docs, docs[id].klass, id, <<>>, TrackingGet)
            sl == IF g.ok THEN InputSlots(CurSchema, docs[id].klass, g.val) ELSE <<>>
        IN \A i \in 1..Len(sl) :
              sl[i].v.t = "str" =>
                  \E j \in 1..Len(sl) :
                      /\ sl[j].v.t = "dict"
                      /\ ObjAt(docs, id, sl[j].path) = ObjAt(docs, id, sl[i].path)
                      /\ (CommonPrefix(sl[i].path, sl[j].path) = 0
                            => sl[i].v.s = ShortestRef(sl[i].path, sl[j].path))

C22_SomeReference ==
    \E id \in DOMAIN docs :
        LET g == dms_api_path_get(CurSchema, docs, docs[id].klass, id, <<>>, TrackingGet)
            sl == IF g.ok THEN InputSlots(CurSchema, docs[id].klass, g.val) ELSE <<>>
        IN \E i \in 1..Len(sl) : sl[i].v.t = "str"


(***************************************************************************)
(* The schema cache after a re-import                                      *)
(***************************************************************************)
\* the schema the store holds, parsed
StoredSchema == SchemaSchema_parse_obj(dms_api_schema_get(schemaColl).raw).schema

\* C23 as stated: once a schema re-import (POST schema with force, or
\* GG.schema_import) has completed, the schema that lookups, POST, GET and PATCH
\* work with is the newly stored one, never a cached copy of the previous one.
C23_ReimportTakesEffect ==
    (resp.op \in {"schema_post", "schema_import"} /\ resp.ok) => CurSchema = StoredSchema

\* the same for GG.schema_import alone
C23_ImportTakesEffect ==
    (resp.op = "schema_import" /\ resp.ok) => CurSchema = StoredSchema

C23_ImportChanged ==
    /\ resp.op = "schema_import" /\ resp.ok
    /\ StoredSchema # SchemaSchema_parse_obj(RawSchema1).schema


(***************************************************************************)
(* The schema cache under one re-import concurrent with lookups            *)
(***************************************************************************)
\* the import and every lookup have finished
CacheAllFinished ==
    /\ Importer \in DOMAIN pc
    /\ pc[Importer] = "done"
    /\ \A r \in Lookups : pc[r] \in {"done", "failed"}

\* no lookup has failed
C24_NoLookupFails ==
    \A r \in DOMAIN pc : r \in Lookups => pc[r] # "failed"

\* once all have finished the cache holds nothing or the imported schema
C24_NoStaleCache ==
    CacheAllFinished =>
        \/ DB \notin DOMAIN GG_SCH
        \/ GG_SCH[DB] = SchemaSchema_parse_obj(loc[Importer].schema).schema

\* C24 as stated: in every interleaving of one schema re-import with
\* concurrent lookups no lookup fails, and once all of them have finished the
\* cache holds either nothing or the new schema, never the old one.
C24_CacheToleratesWriter == C24_NoLookupFails /\ C24_NoStaleCache


(***************************************************************************)
(* What a PATCH leaves alone                                               *)
(***************************************************************************)
\* the attributes the tails of the resolved paths of a PATCH name: <<id, attr>>
PatchTargets(sch, dd, q) ==
    LET RR == _resolve_path_head(sch, dd, q.type, q.id, q.path) IN
    IF RR.ok
    THEN {<<RR.paths[k].id, RR.paths[k].tail[1].attr>> :
             k \in {j \in DOMAIN RR.paths : Len(RR.paths[j].tail) >= 1}}
    ELSE {}

\* what a path resolves to: the object (type, id, parent) and the tail of each
\* resolved path, without the copy of the document it carries; the error
\* when it resolves to none
ResolvedTo(sch, dd, type, id, path) ==
    LET RR == _resolve_path_head(sch, dd, type, id, path) IN
    IF ~RR.ok THEN RR
    ELSE [ok |-> TRUE, isPlain |-> RR.isPlain,
          paths |-> [k \in DOMAIN RR.paths |->
                        [type |-> RR.paths[k].type, id |-> RR.paths[k].id,
                         tail |-> RR.paths[k].tail, parent |-> RR.paths[k].parent]]]

\* attribute k of document id differs between two stores
AttrDiffers(dd0, dd, id, k) ==
    \/ DictHas(dd0[id].rec, k) # DictHas(dd[id].rec, k)
    \/ DictHas(dd0[id].rec, k) /\ DictGet(dd0[id].rec, k) # DictGet(dd[id].rec, k)

\* C25 as stated: a PATCH adds and removes no document and changes nothing but
\* attributes named by the tails of its resolved paths, none of them a link
\* field or _meta; the link graph from every object and the result of resolving
\* every path from every object are the same before and after.
C25_PatchFrame ==
    [][(nops' # nops /\ resp'.op = "patch") =>
          \E dd0 \in {docs} : \E dd \in {docs'} : \E sch \in {CurSchema} :
          \E T \in {PatchTargets(sch, dd0, resp')} :
              /\ DOMAIN dd = DOMAIN dd0
              /\ dd # dd0 => \A id \in DOMAIN dd0 :
                    /\ dd[id].klass = dd0[id].klass
                    /\ \A k \in KeySet(dd0[id].rec) \cup KeySet(dd[id].rec) :
                          AttrDiffers(dd0, dd, id, k) =>
                              /\ <<id, k>> \in T
                              /\ k # "_meta"
                              /\ k \in DOMAIN sch[dd0[id].klass]
                              /\ sch[dd0[id].klass][k].link = None
                    /\ _make_link_digraph(sch, dd, dd[id].klass, id)
                          = _make_link_digraph(sch, dd0, dd0[id].klass, id)
                    /\ \A p \in ResolverPaths :
                          ResolvedTo(sch, dd, dd[id].klass, id, p)
                              = ResolvedTo(sch, dd0, dd0[id].klass, id, p)]_vars

\* a PATCH through a link has written an attribute of a linked object
C25_Witness ==
    /\ resp.op = "patch" /\ resp.ok
    /\ PatchRR.ok /\ Len(PatchRR.paths) >= 1
    /\ PatchRR.paths[1].id # resp.id
    /\ DictHas(docs[PatchRR.paths[1].id].rec, PatchRR.paths[1].tail[1].attr)
    /\ StoredLinks(CurSchema, docs[resp.id]) # {}


(***************************************************************************)
(* SAFE-LINKS: the link digraph is connected and holds the modified IDs    *)
(***************************************************************************)
\* C26 as stated: for every reachable store, every root and every list of
\* modification paths, the link digraph built from the root is weakly
\* connected and every ID a modification path resolves to is one of its
\* nodes: SAFE-LINKS fails neither in its assertion nor in the path search.
C26_GraphConnected ==
    \A id \in DOMAIN docs : \A paths \in SafePaths :
    \E sch \in {CurSchema} :
    \E G \in {_make_link_digraph(sch, docs, docs[id].klass, id)} :
    \E mod \in {ModIds(sch, docs, docs[id].klass, id, paths, {})} :
        /\ G.ok => /\ id \in G.nodes
                   /\ is_weakly_connected(G.nodes, G.edges)
                   /\ mod.ok => mod.ids \subseteq G.nodes
        /\ \A trivial \in BOOLEAN :
              \E r \in {dms_api_path_safe_links(sch, docs, docs[id].klass, id, paths, trivial)} :
                  ~r.ok => r.err \notin {"AssertionError", "NodeNotFound"}

\* a root with links to several objects, and a modification path that resolves
\* to an object other than the root
C26_Witness ==
    \E id \in DOMAIN docs : \E paths \in SafePaths :
        LET G == _make_link_digraph(CurSchema, docs, docs[id].klass, id)
            mod == ModIds(CurSchema, docs, docs[id].klass, id, paths, {})
        IN G.ok /\ mod.ok /\ Cardinality(G.nodes) >= 3 /\ mod.ids # {} /\ id \notin mod.ids


(***************************************************************************)
(* What a failed POST leaves behind                                        *)
(***************************************************************************)
\* the slots of an input that hold a nested object
DictSlots(sl) == {i \in 1..Len(sl) : sl[i].v.t = "dict"}

\* nested object i is complete before nested object j: it lies inside j, or it
\* is written before j and does not contain it
CompleteBefore(sl, i, j) ==
    /\ i # j
    /\ \/ IsProperPrefix(sl[j].path, sl[i].path)
       \/ ~IsProperPrefix(sl[i].path, sl[j].path) /\ i < j

\* the number of nested objects complete before nested object i
Rank(sl, i) == Cardinality({j \in DictSlots(sl) : CompleteBefore(sl, j, i)})

\* a failed POST left the documents that were there as they were, and inserted
\* the n nested objects that are complete first, each with all its attributes,
\* the root not among them; linksOK is what is required of their links
FailedPostLeaves(linksOK(_, _, _)) ==
    \E dd0 \in {docs} : \E dd \in {docs'} : \E q \in {resp'} : \E sch \in {CurSchema} :
    \E sl \in {InputSlots(sch, q.type, q.data)} :
    \E base \in {Cardinality(DOMAIN dd0)} :
    \E n \in {Cardinality(DOMAIN dd \ DOMAIN dd0)} :
        /\ \A id \in DOMAIN dd0 : id \in DOMAIN dd /\ dd[id] = dd0[id]
        /\ n <= Cardinality(DictSlots(sl))
        /\ DOMAIN dd \ DOMAIN dd0 = {ObjectIdStr(base + k) : k \in 1..n}
        /\ \A i \in DictSlots(sl) :
              Rank(sl, i) < n =>
                 \E id \in {ObjectIdStr(base + Rank(sl, i) + 1)} :
                    /\ id \in DOMAIN dd
                    /\ dd[id].klass = sl[i].klass
                    /\ KeySet(dd[id].rec) = KeySet(sl[i].v)
                    /\ \A v \in StoredLinks(sch, dd[id]) : linksOK(dd, q, v)

LinkInserted(dd, q, v) == v \in DOMAIN dd

LinkInsertedOrGiven(dd, q, v) == v \in DOMAIN dd \/ v \in GivenIds(q)

\* C27 as stated: a failed POST inserts neither the root nor an object on the
\* way to the failing attribute; what it leaves are complete descendants
\* created before the failure, and no stored document references an object
\* that was not inserted.
C27_FailedPost ==
    [][(nops' # nops /\ resp'.op = "post" /\ ~resp'.ok) =>
          FailedPostLeaves(LinkInserted)]_vars

\* the same, but for the references the input gives as IDs
C27_FailedPostButGivenIds ==
    [][(nops' # nops /\ resp'.op = "post" /\ ~resp'.ok) =>
          FailedPostLeaves(LinkInsertedOrGiven)]_vars

\* a failed POST has left an orphan
C27_Orphan ==
    /\ resp.op = "post" /\ ~resp.ok
    /\ \E id \in DOMAIN docs :
          /\ IdNum(id) = Cardinality(DOMAIN docs)
          /\ \A o \in DOMAIN docs : id \notin StoredLinks(CurSchema, docs[o])
          /\ StoredLinks(CurSchema, docs[id]) # {}


(***************************************************************************)
(* Two concurrent PATCH requests                                           *)
(***************************************************************************)
\* both requests have finished, each with all its writes made
PatchersDone ==
    /\ DOMAIN pc = Patchers
    /\ \A p \in Patchers : pc[p] = "done"

\* the attributes request p has written: <<id, attr>>
WroteTo(p) == {<<loc[p].wrote[i].id, loc[p].wrote[i].attr>> : i \in DOMAIN loc[p].wrote}

\* the canonical record request p wrote last to the attribute t
LastWrote(p, t) ==
    LET W == loc[p].wrote
        i == CHOOSE j \in DOMAIN W :
                /\ <<W[j].id, W[j].attr>> = t
                /\ \A j2 \in DOMAIN W : j2 > j => <<W[j2].id, W[j2].attr>> # t
    IN W[i].rec

\* C28 as stated: after two concurrent PATCH requests have finished, an
\* attribute written by one of them only holds the value that request wrote,
\* in every interleaving; an attribute written by both holds the canonical
\* value of exactly one of the two.
C28_BothTakeEffect ==
    PatchersDone =>
        \A p \in Patchers : \A t \in WroteTo(p) :
            /\ t[1] \in DOMAIN docs /\ DictHas(docs[t[1]].rec, t[2])
            /\ \E cur \in {DictGet(docs[t[1]].rec, t[2])} :
                  \A o \in Patchers \ {p} :
                     IF t \in WroteTo(o)
                     THEN cur \in {LastWrote(p, t), LastWrote(o, t)}
                     ELSE cur = LastWrote(p, t)

\* both requests have written to the same object, to different attributes
C28_Witness ==
    /\ PatchersDone
    /\ \E t1 \in WroteTo("p1") : \E t2 \in WroteTo("p2") :
          /\ t1[1] = t2[1] /\ t1[2] # t2[2]
          /\ t1 \notin WroteTo("p2") /\ t2 \notin WroteTo("p1")

\* both requests have written different values to the same attribute
C28_SameAttribute ==
    /\ PatchersDone
    /\ \E t \in WroteTo("p1") \cap WroteTo("p2") : LastWrote("p1", t) # LastWrote("p2", t)


(***************************************************************************)
(* The stored links follow the order of insertion                          *)
(***************************************************************************)
\* every stored link points to a document inserted before the one that holds it
Ordered(sch, dd) ==
    \A id \in DOMAIN dd : \A v \in StoredLinks(sch, dd[id]) :
        v \in DOMAIN dd /\ IdNum(v) < IdNum(id)

\* no document reaches itself along stored links
Acyclic(sch, dd) ==
    \A id \in DOMAIN dd : id \notin Reach(sch, dd, LinkedFrom(sch, dd, id))

\* GET, CLONE's read, the link graph and the path resolver return, with a
\* result or an error, on every stored object
WalksReturn(sch, dd) ==
    \A id \in DOMAIN dd :
        /\ dms_api_path_get(sch, dd, dd[id].klass, id, <<>>, PlainGet).ok \in BOOLEAN
        /\ dms_api_path_get(sch, dd, dd[id].klass, id, <<>>, TrackingGet).ok \in BOOLEAN
        /\ _make_link_digraph(sch, dd, dd[id].klass, id).ok \in BOOLEAN
        /\ \A p \in ResolverPaths :
              _resolve_path_head(sch, dd, dd[id].klass, id, p).ok \in BOOLEAN

\* C29 as stated: as long as every ID given in POST input names a document
\* already in the store, every POST, PATCH and CLONE keeps each stored link
\* pointing to a document inserted strictly before its holder; the link graph
\* is then acyclic and the recursive walks return on every stored object.
C29_LinksPointBack ==
    [][(/\ nops' # nops
        /\ resp'.op \in {"post", "patch", "clone"}
        /\ Ordered(CurSchema, docs)
        /\ resp'.op = "post" => GivenIds(resp') \subseteq DOMAIN docs) =>
          \E sch \in {CurSchema} : \E dd \in {docs'} :
              /\ Ordered(sch, dd)
              /\ dd # docs => Acyclic(sch, dd) /\ WalksReturn(sch, dd)]_vars

\* a POST has stored links to an existing object given by ID, next to objects
\* linked by earlier requests
C29_Witness ==
    /\ resp.op = "post" /\ resp.ok
    /\ GivenIds(resp) # {}
    /\ \A v \in GivenIds(resp) : v \in DOMAIN docs /\ IdNum(v) < IdNum(resp.id)
    /\ GivenIds(resp) \subseteq StoredLinks(CurSchema, docs[resp.id])
    /\ Ordered(CurSchema, docs)
    /\ Cardinality(DOMAIN docs) >= 3


(***************************************************************************)
(* POST: the paths under which the tracker registers the objects           *)
(***************************************************************************)
\* the slots of an input that hold a relative reference
RelSlots(sl) == {i \in 1..Len(sl) : sl[i].v.t = "str" /\ ~_is_object_id(sl[i].v)}

\* the tracker a successful POST ends with has the root under the empty path
\* and every nested object under the path of its slot
RegisteredInPlace(sch, dd0, dd, q, sl) ==
    \E r \in {dms_api_object_post(sch, dd0, q.type, q.data)} :
        /\ r.ok /\ r.id = q.id
        /\ r.tr.id2path[q.id] = PyTuple(<<>>)
        /\ \A i \in DictSlots(sl) :
              \E id \in {ObjAt(dd, q.id, sl[i].path)} :
                 /\ id \in DOMAIN r.tr.id2path
                 /\ r.tr.id2path[id] = PyTuple(sl[i].path)

\* C30 as stated: resolving a relative reference, with or without leading
\* dots, leaves the path of the object that holds it as it is: the holder and
\* the nested objects that follow are registered under the paths of their
\* slots.
C30_PathUntouched ==
    [][(nops' # nops /\ resp'.op = "post" /\ resp'.ok) =>
          \E sch \in {CurSchema} : \E q \in {resp'} :
          \E sl \in {InputSlots(sch, q.type, q.data)} :
              RelSlots(sl) # {} => RegisteredInPlace(sch, docs, docs', q, sl)]_vars

\* the same for the references that start with a dot
C30_PathUntouchedDotted ==
    [][(nops' # nops /\ resp'.op = "post" /\ resp'.ok) =>
          \E sch \in {CurSchema} : \E q \in {resp'} :
          \E sl \in {InputSlots(sch, q.type, q.data)} :
              (RelSlots(sl) # {} /\ \A i \in RelSlots(sl) : IsRel(sl[i].v))
                  => RegisteredInPlace(sch, docs, docs', q, sl)]_vars

C30_DottedResolved ==
    /\ resp.op = "post" /\ resp.ok
    /\ \E sl \in {InputSlots(CurSchema, resp.type, resp.data)} :
          /\ RelSlots(sl) # {}
          /\ \A i \in RelSlots(sl) : IsRel(sl[i].v)
          /\ \E i \in DictSlots(sl) : \E j \in RelSlots(sl) : i < j
=============================================================================
